---------------------------- MODULE Spec2Model ----------------------------
(***************************************************************************)
(* A model of the commentary-to-timeline pipeline of the mascot persona    *)
(* engine: preproc.py (minute normaliser), ingest.py (section splitter and *)
(* lineup resolver) and parser.py (the event classifier).                  *)
(*                                                                         *)
(* Text is a sequence of lexemes.  Every character that is not a letter is *)
(* a lexeme of its own (a digit, a blank, a newline, a punctuation mark);  *)
(* a maximal run of letters is one lexeme (a word).  The regular           *)
(* expressions of the source are translated to operators on such           *)
(* sequences; what they see of a word is its case shape, its lower-case    *)
(* form and which other words it contains.                                 *)
(***************************************************************************)
EXTENDS Integers, Sequences, FiniteSets, TLC

VARIABLES
    nmIn,       \* preproc: the text handed to normalise_minutes
    nmOut,      \* preproc: the text returned
    nmPc,       \* preproc: "in" before the call, "out" after it
    commRaw,    \* run_from_text: the raw commentary lines
    ourTeam,   \* run_from_text: the team of interest
    pText,       \* parser: the cleaned commentary handed to parse_events_unbiased
    pAliases1,   \* parser: the alias list of team 1
    pAliases2,   \* parser: the alias list of team 2
    pLines,      \* parser: the stripped, non-empty lines of the text
    pIdx,       \* parser: the index of the line the loop is at
    curMin,    \* parser: the minute carried from line to line (<<>> is None)
    events,     \* parser: the event list
    evLine,     \* for each event, the index of the line it came from
    pPc,        \* parser: "raw", "clean", "loop", "returned"
    run,        \* the number of the invocation on this input
    prevEvents, \* the event list the previous invocation returned
    prevAliases, \* the alias lists the previous invocation worked with
    rawText,        \* run_from_text: the text of the input file
    ctxLines,   \* run_from_text: ctx_lines
    lupLines,   \* run_from_text: lineup_lines
    commLines,  \* run_from_text: comm_lines_raw
    cand,       \* parse_lineups: the lines it was called with
    teamDict,      \* parse_lineups: the dict of teams, in the order of insertion
    lastTeam,   \* parse_lineups: last_team
    lIdx,       \* parse_lineups: the index of the line the loop is at
    retried,    \* run_from_text: TRUE once the except branch has been taken
    lineups,    \* run_from_text: team1, roster1, team2, roster2
    iEvents,    \* run_from_text: events
    iPc,        \* run_from_text: "raw", "lineups", "teams", "parsed", "failed"
    oParts,     \* owns_event: the parts of the line it is called with
    oAliases,   \* owns_event: the alias lists of the two teams
    oIdx,       \* owns_event: the index returned (0 is None)
    oDet,       \* detect_player: the player and the index returned
    oPc,        \* "in" before the call, "out" after owns_event, "det" after detect_player
    mEvents,    \* build_memory: events
    memory,     \* build_memory: the dictionary returned
    stats,      \* compute_stats: the dictionary returned
    mPc         \* "idle", "events", "built", "stats", "raised"

normVars == <<nmIn, nmOut, nmPc>>

parseVars == <<commRaw, ourTeam, pText, pAliases1, pAliases2, pLines, pIdx,
               curMin, events, evLine, pPc, run, prevEvents, prevAliases>>

ingestVars == <<rawText, ctxLines, lupLines, commLines, cand, teamDict, lastTeam, lIdx,
                retried, lineups, iEvents, iPc>>

ownerVars == <<oParts, oAliases, oIdx, oDet, oPc>>

memVars == <<mEvents, memory, stats, mPc>>

vars == <<normVars, parseVars, ingestVars, ownerVars, memVars>>

None == "None"

\* ------------------------------------------------------------------------
\* Lexemes
\* ------------------------------------------------------------------------
NL == "\n"
CR == "\r"
SP == " "
RSQUO == "<rsquo>"      \* U+2019, the typographic apostrophe
ENDASH == "<endash>"    \* U+2013
EMDASH == "<emdash>"    \* U+2014

Digits == {"0", "1", "2", "3", "4", "5", "6", "7", "8", "9"}

\* \s of the re module, as far as the inputs hold it
Ws == {SP, NL, CR}

IsWs(c) == c \in Ws

IsDigit(c) == c \in Digits

\* ------------------------------------------------------------------------
\* Sequence helpers
\* ------------------------------------------------------------------------
Slice(s, a, b) == IF a > b THEN <<>> ELSE SubSeq(s, a, b)

\* a value computed once and handed to what uses it
With(x, Body(_)) == Body(x)

\* the least and the greatest of a set of positions, 0 for the empty set
Least(S) == IF S = {} THEN 0 ELSE CHOOSE k \in S : \A m \in S : k <= m

Greatest(S) == IF S = {} THEN 0 ELSE CHOOSE k \in S : \A m \in S : k >= m

\* the elements of a set of positions in ascending order
Ascending(S) ==
    [i \in 1..Cardinality(S) |-> CHOOSE k \in S : Cardinality({m \in S : m <= k}) = i]

\* the sequences of a sequence, one after the other
RECURSIVE ConcatIn(_, _, _)
ConcatIn(ss, a, b) ==
    IF a > b THEN <<>>
    ELSE IF a = b THEN ss[a]
    ELSE ConcatIn(ss, a, (a + b) \div 2) \o ConcatIn(ss, (a + b) \div 2 + 1, b)

Concat(ss) == ConcatIn(ss, 1, Len(ss))

\* a scan of s from left to right, as re.sub and re.findall make it: at a
\* position p, Step(s, p) gives what is put out there and the position the
\* scan goes on from (beyond p).  The stretch a..b-1 is scanned in two halves.
Scan(Step(_, _), s, p) ==
    LET RECURSIVE In(_, _)
        In(a, b) ==
            IF a >= b THEN [out |-> <<>>, next |-> a]
            ELSE IF b = a + 1 THEN Step(s, a)
            ELSE LET l == In(a, (a + b) \div 2)
                     r == In(l.next, b)
                 IN  [out |-> l.out \o r.out, next |-> r.next]
    IN  In(p, Len(s) + 1).out

\* number of consecutive lexemes of s from position p on that are in S
RunLen(s, p, S) ==
    With(Least({k \in p..Len(s) : s[k] \notin S}), LAMBDA stop :
        IF p > Len(s) THEN 0 ELSE IF stop = 0 THEN Len(s) - p + 1 ELSE stop - p)

\* the position of the first lexeme of S in s from position p on, the
\* position after the end of s if there is none
StopAt(s, p, S) ==
    With(Least({k \in p..Len(s) : s[k] \in S}), LAMBDA stop :
        IF stop = 0 THEN Len(s) + 1 ELSE stop)

SkipWs(s, p) == p + RunLen(s, p, Ws)

DigitRun(s, p) == RunLen(s, p, Digits)

Range(s) == {s[i] : i \in DOMAIN s}

At(s, p) == IF p >= 1 /\ p <= Len(s) THEN s[p] ELSE None

\* the sequences over S of length at most n
RECURSIVE SeqsUpTo(_, _)
SeqsUpTo(S, n) ==
    IF n = 0 THEN {<<>>}
    ELSE LET shorter == SeqsUpTo(S, n - 1)
         IN  shorter \cup {Append(s, c) : s \in {t \in shorter : Len(t) = n - 1}, c \in S}

\* ------------------------------------------------------------------------
\* The words of the inputs
\* ------------------------------------------------------------------------

\* words of capitals only
UpWords == {"CHANCE", "COLE", "COUNTER", "FC", "HUGE", "J", "MIN", "VAR",
            "XI"}

\* capitalised words: [A-Z][a-z]+
CapWords == {"Arsenal", "Attempt", "Bench", "Birmingham", "Blue",
             "Chelsea", "City", "Cole", "Conceded", "Context", "Corner",
             "Delay", "Dembele", "Dembelle", "First", "Foul", "Goal",
             "Great", "Half", "He", "Hogan", "Late", "Lineup", "No",
             "Offside", "Our", "Play", "Red", "Rober", "Roberts", "Second",
             "Smith", "Squad", "Starting", "Subs", "Substitutes",
             "Substitution", "The", "Unknown", "Yellow"}

\* lower-case words
LowWords == {"a", "added", "after", "again", "against", "ball", "blocked",
             "booked", "but", "by", "card", "caught", "comes", "context",
             "decisive", "defender", "deflected", "equaliser", "equalises",
             "flag", "footed", "for", "free", "goes", "half", "here",
             "host", "in", "is", "kick", "kicks", "marker", "match",
             "misses", "net", "off", "offside", "on", "over", "past",
             "point", "replaces", "right", "said", "save", "scores",
             "second", "shot", "shown", "standout", "subs", "the", "time",
             "to", "turning", "unlucky", "up", "wins", "x", "xi", "yellow"}

\* words of one letter, which [A-Z][a-z]+ cannot match even under re.I
OneLetterWords == {"J", "a", "x"}

Words == UpWords \cup CapWords \cup LowWords

IsWord(c) == c \in Words

\* \w of the re module: letters and digits
IsW(c) == IsWord(c) \/ IsDigit(c)

\* \b between positions p-1 and p of s
Boundary(s, p) == IsW(At(s, p - 1)) # IsW(At(s, p))

\* str.lower() of the words that are not lower-case already
LowerTable ==
    "CHANCE" :> "chance" @@ "COLE" :> "cole" @@ "COUNTER" :> "counter" @@
    "FC" :> "fc" @@ "HUGE" :> "huge" @@ "J" :> "j" @@
    "MIN" :> "min" @@ "VAR" :> "var" @@ "XI" :> "xi" @@
    "Arsenal" :> "arsenal" @@ "Attempt" :> "attempt" @@ "Bench" :> "bench" @@
    "Birmingham" :> "birmingham" @@ "Blue" :> "blue" @@ "Chelsea" :> "chelsea" @@
    "City" :> "city" @@ "Cole" :> "cole" @@ "Conceded" :> "conceded" @@
    "Context" :> "context" @@ "Corner" :> "corner" @@ "Delay" :> "delay" @@
    "Dembele" :> "dembele" @@ "Dembelle" :> "dembelle" @@ "First" :> "first" @@
    "Foul" :> "foul" @@ "Goal" :> "goal" @@ "Great" :> "great" @@
    "Half" :> "half" @@ "He" :> "he" @@ "Hogan" :> "hogan" @@
    "Late" :> "late" @@ "Lineup" :> "lineup" @@ "No" :> "no" @@
    "Offside" :> "offside" @@ "Our" :> "our" @@ "Play" :> "play" @@
    "Red" :> "red" @@ "Rober" :> "rober" @@ "Roberts" :> "roberts" @@
    "Second" :> "second" @@ "Smith" :> "smith" @@ "Squad" :> "squad" @@
    "Starting" :> "starting" @@ "Subs" :> "subs" @@ "Substitutes" :> "substitutes" @@
    "Substitution" :> "substitution" @@ "The" :> "the" @@ "Unknown" :> "unknown" @@
    "Yellow" :> "yellow"

\* the letters of the words (what the similarity scorer compares)
Letters ==
    "Arsenal" :> <<"A", "r", "s", "e", "n", "a", "l">> @@
    "Attempt" :> <<"A", "t", "t", "e", "m", "p", "t">> @@
    "Bench" :> <<"B", "e", "n", "c", "h">> @@
    "Birmingham" :> <<"B", "i", "r", "m", "i", "n", "g", "h", "a", "m">> @@
    "Blue" :> <<"B", "l", "u", "e">> @@
    "CHANCE" :> <<"C", "H", "A", "N", "C", "E">> @@
    "COLE" :> <<"C", "O", "L", "E">> @@
    "COUNTER" :> <<"C", "O", "U", "N", "T", "E", "R">> @@
    "Chelsea" :> <<"C", "h", "e", "l", "s", "e", "a">> @@
    "City" :> <<"C", "i", "t", "y">> @@
    "Cole" :> <<"C", "o", "l", "e">> @@
    "Conceded" :> <<"C", "o", "n", "c", "e", "d", "e", "d">> @@
    "Context" :> <<"C", "o", "n", "t", "e", "x", "t">> @@
    "Corner" :> <<"C", "o", "r", "n", "e", "r">> @@
    "Delay" :> <<"D", "e", "l", "a", "y">> @@
    "Dembele" :> <<"D", "e", "m", "b", "e", "l", "e">> @@
    "Dembelle" :> <<"D", "e", "m", "b", "e", "l", "l", "e">> @@
    "FC" :> <<"F", "C">> @@
    "First" :> <<"F", "i", "r", "s", "t">> @@
    "Foul" :> <<"F", "o", "u", "l">> @@
    "Goal" :> <<"G", "o", "a", "l">> @@
    "Great" :> <<"G", "r", "e", "a", "t">> @@
    "HUGE" :> <<"H", "U", "G", "E">> @@
    "Half" :> <<"H", "a", "l", "f">> @@
    "He" :> <<"H", "e">> @@
    "Hogan" :> <<"H", "o", "g", "a", "n">> @@
    "Late" :> <<"L", "a", "t", "e">> @@
    "Lineup" :> <<"L", "i", "n", "e", "u", "p">> @@
    "MIN" :> <<"M", "I", "N">> @@
    "No" :> <<"N", "o">> @@
    "Offside" :> <<"O", "f", "f", "s", "i", "d", "e">> @@
    "Our" :> <<"O", "u", "r">> @@
    "Play" :> <<"P", "l", "a", "y">> @@
    "Red" :> <<"R", "e", "d">> @@
    "Rober" :> <<"R", "o", "b", "e", "r">> @@
    "Roberts" :> <<"R", "o", "b", "e", "r", "t", "s">> @@
    "Second" :> <<"S", "e", "c", "o", "n", "d">> @@
    "Smith" :> <<"S", "m", "i", "t", "h">> @@
    "Squad" :> <<"S", "q", "u", "a", "d">> @@
    "Starting" :> <<"S", "t", "a", "r", "t", "i", "n", "g">> @@
    "Subs" :> <<"S", "u", "b", "s">> @@
    "Substitutes" :> <<"S", "u", "b", "s", "t", "i", "t", "u", "t", "e", "s">> @@
    "Substitution" :> <<"S", "u", "b", "s", "t", "i", "t", "u", "t", "i", "o", "n">> @@
    "The" :> <<"T", "h", "e">> @@
    "Unknown" :> <<"U", "n", "k", "n", "o", "w", "n">> @@
    "VAR" :> <<"V", "A", "R">> @@
    "XI" :> <<"X", "I">> @@
    "Yellow" :> <<"Y", "e", "l", "l", "o", "w">> @@
    "added" :> <<"a", "d", "d", "e", "d">> @@
    "after" :> <<"a", "f", "t", "e", "r">> @@
    "again" :> <<"a", "g", "a", "i", "n">> @@
    "against" :> <<"a", "g", "a", "i", "n", "s", "t">> @@
    "ball" :> <<"b", "a", "l", "l">> @@
    "blocked" :> <<"b", "l", "o", "c", "k", "e", "d">> @@
    "booked" :> <<"b", "o", "o", "k", "e", "d">> @@
    "but" :> <<"b", "u", "t">> @@
    "by" :> <<"b", "y">> @@
    "card" :> <<"c", "a", "r", "d">> @@
    "caught" :> <<"c", "a", "u", "g", "h", "t">> @@
    "comes" :> <<"c", "o", "m", "e", "s">> @@
    "context" :> <<"c", "o", "n", "t", "e", "x", "t">> @@
    "decisive" :> <<"d", "e", "c", "i", "s", "i", "v", "e">> @@
    "defender" :> <<"d", "e", "f", "e", "n", "d", "e", "r">> @@
    "deflected" :> <<"d", "e", "f", "l", "e", "c", "t", "e", "d">> @@
    "equaliser" :> <<"e", "q", "u", "a", "l", "i", "s", "e", "r">> @@
    "equalises" :> <<"e", "q", "u", "a", "l", "i", "s", "e", "s">> @@
    "flag" :> <<"f", "l", "a", "g">> @@
    "footed" :> <<"f", "o", "o", "t", "e", "d">> @@
    "for" :> <<"f", "o", "r">> @@
    "free" :> <<"f", "r", "e", "e">> @@
    "goes" :> <<"g", "o", "e", "s">> @@
    "half" :> <<"h", "a", "l", "f">> @@
    "here" :> <<"h", "e", "r", "e">> @@
    "host" :> <<"h", "o", "s", "t">> @@
    "in" :> <<"i", "n">> @@
    "is" :> <<"i", "s">> @@
    "kick" :> <<"k", "i", "c", "k">> @@
    "kicks" :> <<"k", "i", "c", "k", "s">> @@
    "marker" :> <<"m", "a", "r", "k", "e", "r">> @@
    "match" :> <<"m", "a", "t", "c", "h">> @@
    "misses" :> <<"m", "i", "s", "s", "e", "s">> @@
    "net" :> <<"n", "e", "t">> @@
    "off" :> <<"o", "f", "f">> @@
    "offside" :> <<"o", "f", "f", "s", "i", "d", "e">> @@
    "on" :> <<"o", "n">> @@
    "over" :> <<"o", "v", "e", "r">> @@
    "past" :> <<"p", "a", "s", "t">> @@
    "point" :> <<"p", "o", "i", "n", "t">> @@
    "replaces" :> <<"r", "e", "p", "l", "a", "c", "e", "s">> @@
    "right" :> <<"r", "i", "g", "h", "t">> @@
    "said" :> <<"s", "a", "i", "d">> @@
    "save" :> <<"s", "a", "v", "e">> @@
    "scores" :> <<"s", "c", "o", "r", "e", "s">> @@
    "second" :> <<"s", "e", "c", "o", "n", "d">> @@
    "shot" :> <<"s", "h", "o", "t">> @@
    "shown" :> <<"s", "h", "o", "w", "n">> @@
    "standout" :> <<"s", "t", "a", "n", "d", "o", "u", "t">> @@
    "subs" :> <<"s", "u", "b", "s">> @@
    "the" :> <<"t", "h", "e">> @@
    "time" :> <<"t", "i", "m", "e">> @@
    "to" :> <<"t", "o">> @@
    "turning" :> <<"t", "u", "r", "n", "i", "n", "g">> @@
    "unlucky" :> <<"u", "n", "l", "u", "c", "k", "y">> @@
    "up" :> <<"u", "p">> @@
    "wins" :> <<"w", "i", "n", "s">> @@
    "xi" :> <<"x", "i">> @@
    "yellow" :> <<"y", "e", "l", "l", "o", "w">>

\* <<w, k>>: the lower-case word w starts with k (and is longer)
PrefixPairs == {<<"added", "a">>, <<"after", "a">>, <<"again", "a">>,
                <<"against", "a">>, <<"arsenal", "a">>, <<"attempt", "a">>,
                <<"blocked", "block">>, <<"deflected", "deflect">>,
                <<"kicks", "kick">>, <<"off", "of">>, <<"offside", "of">>,
                <<"offside", "off">>, <<"substitutes", "subs">>,
                <<"substitution", "subs">>}

\* <<w, k>>: w ends with k
SuffixPairs == {<<"again", "in">>, <<"chelsea", "a">>, <<"lineup", "up">>,
                <<"min", "in">>, <<"standout", "out">>}

\* <<w, k>>: w contains k
InfixPairs == {<<"added", "a">>, <<"after", "a">>, <<"again", "a">>,
               <<"again", "in">>, <<"against", "a">>, <<"against", "in">>,
               <<"arsenal", "a">>, <<"attempt", "a">>, <<"ball", "a">>,
               <<"birmingham", "a">>, <<"birmingham", "in">>,
               <<"birmingham", "min">>, <<"blocked", "block">>,
               <<"card", "a">>, <<"caught", "a">>, <<"chance", "a">>,
               <<"chelsea", "a">>, <<"city", "it">>, <<"decisive", "is">>,
               <<"deflected", "deflect">>, <<"delay", "a">>,
               <<"equaliser", "a">>, <<"equaliser", "is">>,
               <<"equalises", "a">>, <<"equalises", "is">>,
               <<"flag", "a">>, <<"goal", "a">>, <<"great", "a">>,
               <<"half", "a">>, <<"hogan", "a">>, <<"kicks", "kick">>,
               <<"late", "a">>, <<"lineup", "in">>, <<"lineup", "up">>,
               <<"marker", "a">>, <<"match", "a">>, <<"min", "in">>,
               <<"misses", "is">>, <<"off", "of">>, <<"offside", "of">>,
               <<"offside", "off">>, <<"past", "a">>, <<"play", "a">>,
               <<"point", "in">>, <<"replaces", "a">>, <<"said", "a">>,
               <<"save", "a">>, <<"smith", "it">>, <<"squad", "a">>,
               <<"standout", "a">>, <<"standout", "out">>,
               <<"starting", "a">>, <<"starting", "in">>,
               <<"substitutes", "it">>, <<"substitutes", "subs">>,
               <<"substitution", "it">>, <<"substitution", "subs">>,
               <<"turning", "in">>, <<"var", "a">>, <<"wins", "in">>}

\* ------------------------------------------------------------------------
\* preproc.py
\* ------------------------------------------------------------------------
\* int(minute) printed back: the digits without their leading zeros
RECURSIVE IntStr(_)
IntStr(ds) ==
    IF Len(ds) > 1 /\ ds[1] = "0" THEN IntStr(Tail(ds)) ELSE ds

\* _tag: f"[MIN={int(minute)}{('+'+extra) if extra else ''}]"
Tag(minute, extra) ==
    <<"[", "MIN", "=">> \o IntStr(minute)
        \o (IF extra # <<>> THEN <<"+">> \o extra ELSE <<>>) \o <<"]">>

NoMatch == [end |-> 0, base |-> <<>>, extra |-> <<>>]

\* MIN_LINE = ^\s*(\d{1,3})(?:\+(\d{1,2}))?\s*[:'’]\s*   (re.M), tried at p.
\* The optional group matches only a run of one or two digits that the
\* terminator can follow; nothing else can follow a '+'.
MatchMinLine(s, p) ==
    With(SkipWs(s, p), LAMBDA d :
    With(DigitRun(s, d), LAMBDA n :
    With(At(s, d + n) = "+", LAMBDA hasPlus :
    With(IF hasPlus THEN DigitRun(s, d + n + 1) ELSE 0, LAMBDA m :
    With(SkipWs(s, IF hasPlus THEN d + n + 1 + m ELSE d + n), LAMBDA t :
        IF ~(p = 1 \/ At(s, p - 1) = NL) THEN NoMatch
        ELSE IF n < 1 \/ n > 3 THEN NoMatch
        ELSE IF hasPlus /\ (m < 1 \/ m > 2) THEN NoMatch
        ELSE IF At(s, t) \notin {":", "'", RSQUO} THEN NoMatch
        ELSE [end   |-> SkipWs(s, t + 1),
              base  |-> Slice(s, d, d + n - 1),
              extra |-> IF hasPlus THEN Slice(s, d + n + 1, d + n + m) ELSE <<>>])))))

\* MIN_LINE.sub(repl_line, text): leftmost non-overlapping matches, each
\* replaced by its tag and one blank
SubMinLineAt(s, p) ==
    With(MatchMinLine(s, p), LAMBDA m :
        IF m.end = 0 THEN [out |-> <<s[p]>>, next |-> p + 1]
        ELSE [out |-> Tag(m.base, m.extra) \o <<SP>>, next |-> m.end])

SubMinLine(s, p) == Scan(SubMinLineAt, s, p)

\* ['’]?\b at q: the position after it, or 0
InlineEnd(s, q) ==
    IF At(s, q) \in {"'", RSQUO} /\ Boundary(s, q + 1) THEN q + 1
    ELSE IF Boundary(s, q) THEN q
    ELSE 0

\* MIN_INLINE = \b(\d{1,3})(?:\+(\d{1,2}))?['’]?\b, tried at p.  The engine
\* backtracks: the apostrophe, then the added minutes (two digits, one,
\* none) are given up in turn until a word boundary follows.
MatchMinInline(s, p) ==
    With(DigitRun(s, p), LAMBDA n :
    With(IF At(s, p + n) = "+" THEN DigitRun(s, p + n + 1) ELSE 0, LAMBDA m :
    With(IF m >= 2 THEN InlineEnd(s, p + n + 3) ELSE 0, LAMBDA k2 :
    With(IF m >= 1 THEN InlineEnd(s, p + n + 2) ELSE 0, LAMBDA k1 :
    With(InlineEnd(s, p + n), LAMBDA k0 :
        IF ~Boundary(s, p) \/ n < 1 \/ n > 3 THEN NoMatch
        ELSE IF k2 # 0 THEN
            [end |-> k2, base |-> Slice(s, p, p + n - 1), extra |-> Slice(s, p + n + 1, p + n + 2)]
        ELSE IF k1 # 0 THEN
            [end |-> k1, base |-> Slice(s, p, p + n - 1), extra |-> Slice(s, p + n + 1, p + n + 1)]
        ELSE IF k0 # 0 THEN
            [end |-> k0, base |-> Slice(s, p, p + n - 1), extra |-> <<>>]
        ELSE NoMatch)))))

\* MIN_INLINE.sub(repl_inline, t)
SubMinInlineAt(s, p) ==
    With(MatchMinInline(s, p), LAMBDA m :
        IF m.end = 0 THEN [out |-> <<s[p]>>, next |-> p + 1]
        ELSE [out |-> Tag(m.base, m.extra), next |-> m.end])

SubMinInline(s, p) == Scan(SubMinInlineAt, s, p)

normalise_minutes(text) == SubMinInline(SubMinLine(text, 1), 1)

\* clean(): dashes to '-', \r\n? to \n, three or more newlines to two, then
\* normalise_minutes
FixNewlinesAt(s, p) ==
    IF s[p] = CR
    THEN [out |-> <<NL>>, next |-> IF At(s, p + 1) = NL THEN p + 2 ELSE p + 1]
    ELSE [out |-> <<s[p]>>, next |-> p + 1]

FixNewlines(s, p) == Scan(FixNewlinesAt, s, p)

SqueezeNewlinesAt(s, p) ==
    With(RunLen(s, p, {NL}), LAMBDA n :
        IF n >= 3 THEN [out |-> <<NL, NL>>, next |-> p + n]
        ELSE [out |-> <<s[p]>>, next |-> p + 1])

SqueezeNewlines(s, p) == Scan(SqueezeNewlinesAt, s, p)

Dashes(s) == [i \in 1..Len(s) |-> IF s[i] \in {EMDASH, ENDASH} THEN "-" ELSE s[i]]

clean(text) ==
    normalise_minutes(SqueezeNewlines(FixNewlines(Dashes(text), 1), 1))

\* ------------------------------------------------------------------------
\* parser.py
\* ------------------------------------------------------------------------
\* KEYWORDS, each phrase as its lexemes
KEYWORDS == [
    goal |-> {<<"goal", "!">>, <<"scores">>,
              <<"finds", " ", "the", " ", "net">>,
              <<"puts", " ", "it", " ", "in">>, <<"finishes">>,
              <<"equalises">>, <<"equalizes">>, <<"makes", " ", "it">>},
    miss |-> {<<"misses">>, <<"wide">>, <<"over", " ", "the", " ", "bar">>,
              <<"skies", " ", "it">>, <<"sitter">>, <<"drags", " ", "it">>,
              <<"fluffs">>},
    save |-> {<<"attempt", " ", "saved">>, <<"great", " ", "save">>,
              <<"parries">>, <<"denies">>, <<"save">>, <<"stops">>,
              <<"claims">>, <<"palm">>},
    block |-> {<<"attempt", " ", "blocked">>, <<"block">>},
    offside |-> {<<"offside">>},
    corner |-> {<<"corner", ",">>},
    foul |-> {<<"foul", " ", "by">>, <<"commits", " ", "a", " ", "foul">>},
    freekick |-> {<<"wins", " ", "a", " ", "free", " ", "kick">>,
                  <<"free", " ", "kick", " ", "in">>},
    sub |-> {<<"substitution", ",">>},
    yc |-> {<<"yellow", " ", "card">>, <<"booked">>},
    rc |-> {<<"red", " ", "card">>, <<"dismissal">>,
            <<"sent", " ", "off">>,
            <<"second", " ", "yellow", " ", "card">>},
    disallowed |-> {<<"ball", " ", "in", " ", "the", " ", "net">>,
                    <<"flag", " ", "is", " ", "up">>,
                    <<"ruled", " ", "out">>, <<"disallowed">>,
                    <<"out", " ", "of", " ", "play", " ", "before">>,
                    <<"offside", " ", "in", " ", "the", " ", "build", "-", "up">>},
    delay |-> {<<"delay", " ", "in", " ", "match">>,
               <<"delay", " ", "over">>},
    added |-> {<<"announced">>, <<"added", " ", "time">>},
    ko |-> {<<"kick", "-", "off">>, <<"kicks", " ", "off">>},
    ht |-> {<<"half", " ", "time">>},
    ft |-> {<<"full", " ", "time">>}]

\* str.lower() of one lexeme
Lower(w) == IF w \in DOMAIN LowerTable THEN LowerTable[w] ELSE w

\* _norm: accents off, lower case (the inputs hold no accented letter)
_norm(s) == [i \in 1..Len(s) |-> Lower(s[i])]

\* str.strip()
RStrip(s) == Slice(s, 1, Greatest({k \in 1..Len(s) : ~IsWs(s[k])}))

Strip(s) == RStrip(Slice(s, SkipWs(s, 1), Len(s)))

\* whether lexeme h of the text holds lexeme k of a phrase, k being the
\* first and/or the last lexeme of the phrase: a phrase may start inside a
\* word of the text and may end inside one
LexMatch(h, k, first, last) ==
    \/ h = k
    \/ first /\ last /\ <<h, k>> \in InfixPairs
    \/ first /\ ~last /\ <<h, k>> \in SuffixPairs
    \/ ~first /\ last /\ <<h, k>> \in PrefixPairs

\* Python's  nd in hay  for two lower-case texts
Contains(hay, nd) ==
    \/ nd = <<>>
    \/ \E i \in 1..(Len(hay) - Len(nd) + 1) :
          \A j \in 1..Len(nd) : LexMatch(hay[i + j - 1], nd[j], j = 1, j = Len(nd))

\* any(k in low for k in KEYWORDS[key])
HasKeyword(low, key) == \E k \in KEYWORDS[key] : Contains(low, k)

\* the index of the first occurrence of lexeme c in s at or after p, 0 if none
IndexFrom(s, c, p) == Least({k \in p..Len(s) : s[k] = c})

\* ------------------------------------------------------------------------
\* Minute resolution
\* ------------------------------------------------------------------------
\* \[MIN= at position p (re.I where ci holds): the position after it, or 0
TagOpen(s, p, ci) ==
    IF At(s, p) = "[" /\ (IF ci THEN Lower(At(s, p + 1)) = "min" ELSE At(s, p + 1) = "MIN")
          /\ At(s, p + 2) = "="
    THEN p + 3 ELSE 0

\* \d{1,3}(?:\+\d{1,2})? at p, to be followed by ']': the position after the
\* digits, or 0
MinuteBody(s, p) ==
    With(DigitRun(s, p), LAMBDA n :
    With(IF At(s, p + n) = "+" THEN DigitRun(s, p + n + 1) ELSE 0, LAMBDA m :
        IF n < 1 \/ n > 3 THEN 0
        ELSE IF m \in 1..2 /\ At(s, p + n + 1 + m) = "]" THEN p + n + 1 + m
        ELSE IF At(s, p + n) = "]" THEN p + n
        ELSE 0))

\* (?:\[MIN=)? after a \[MIN= that ended before o1: the position after it
SecondOpen(s, o1, ci) ==
    With(IF o1 # 0 THEN TagOpen(s, o1, ci) ELSE 0, LAMBDA o : IF o # 0 THEN o ELSE o1)

\* \s*\+\[MIN=(\d{1,2})\] at q: group 2, or <<>>
AddedRest(s, q) ==
    With(SkipWs(s, q), LAMBDA w :
    With(IF At(s, w) = "+" THEN TagOpen(s, w + 1, TRUE) ELSE 0, LAMBDA o3 :
    With(IF o3 # 0 THEN DigitRun(s, o3) ELSE 0, LAMBDA k :
        IF o3 # 0 /\ k \in 1..2 /\ At(s, o3 + k) = "]"
        THEN Slice(s, o3, o3 + k - 1) ELSE <<>>)))

\* ADDED_PAIR = \[MIN=(?:\[MIN=)?(\d{1,3})(?:\])?\]\s*\+\[MIN=(\d{1,2})\]  (re.I)
\* tried at p: <<base, added>> or <<>>.  With two closing brackets the
\* optional one is taken first; giving it up leaves a ']' where the '+' must
\* be, so there is no second way.
AddedPairAt(s, p) ==
    With(TagOpen(s, p, TRUE), LAMBDA o1 :
    With(SecondOpen(s, o1, TRUE), LAMBDA o2 :
    With(o2 + DigitRun(s, o2), LAMBDA e :
    With(IF At(s, e) # "]" THEN 0 ELSE IF At(s, e + 1) = "]" THEN e + 2 ELSE e + 1, LAMBDA c :
    With(IF c = 0 THEN <<>> ELSE AddedRest(s, c), LAMBDA added :
        IF o1 = 0 \/ e - o2 < 1 \/ e - o2 > 3 \/ c = 0 \/ added = <<>> THEN <<>>
        ELSE <<Slice(s, o2, e - 1), added>>)))))

\* ADDED_PAIR.search from p on
AddedPairSearch(s, p) ==
    With(Least({q \in p..Len(s) : AddedPairAt(s, q) # <<>>}), LAMBDA k :
        IF k = 0 THEN <<>> ELSE AddedPairAt(s, k))

\* START_MIN = ^\s*\[MIN=(?:\[MIN=)?(\d{1,3}(?:\+\d{1,2})?)\]   group 1 or <<>>
StartMin(s) ==
    With(TagOpen(s, SkipWs(s, 1), FALSE), LAMBDA o1 :
    With(SecondOpen(s, o1, FALSE), LAMBDA o2 :
    With(IF o1 # 0 THEN MinuteBody(s, o2) ELSE 0, LAMBDA e :
        IF e = 0 THEN <<>> ELSE Slice(s, o2, e - 1))))

\* \s*['’] at q
ApostropheAt(s, q) == At(s, SkipWs(s, q)) \in {"'", RSQUO}

\* ^\s*(\d{1,3}(?:\+\d{1,2})?)\s*['’]   group 1 or <<>>
RawPrefix(s) ==
    With(SkipWs(s, 1), LAMBDA w :
    With(DigitRun(s, w), LAMBDA n :
    With(IF At(s, w + n) = "+" THEN DigitRun(s, w + n + 1) ELSE 0, LAMBDA m :
        IF n < 1 \/ n > 3 THEN <<>>
        ELSE IF m \in 1..2 /\ ApostropheAt(s, w + n + 1 + m) THEN Slice(s, w, w + n + m)
        ELSE IF ApostropheAt(s, w + n) THEN Slice(s, w, w + n - 1)
        ELSE <<>>)))

\* re.findall(r"\[MIN=(\d{1,3}(?:\+\d{1,2})?)\]", s)[0], or <<>>
TagAt(s, p) ==
    With(TagOpen(s, p, FALSE), LAMBDA o :
    With(IF o # 0 THEN MinuteBody(s, o) ELSE 0, LAMBDA e :
        IF e # 0 THEN Slice(s, o, e - 1) ELSE <<>>))

FirstTag(s, p) ==
    With(Least({q \in p..Len(s) : TagAt(s, q) # <<>>}), LAMBDA k :
        IF k = 0 THEN <<>> ELSE TagAt(s, k))

\* a minute resolution that answers "?" where there is no minute
\* (as parse_goal does,  _extract_minute(line, fallback=None) or "?")
ExtractOrQuestion(s, fallback) ==
    With(StartMin(s), LAMBDA tag :
        IF tag # <<>> THEN tag
        ELSE IF fallback # <<>> THEN fallback
        ELSE <<"?">>)

\* a minute resolution that looks for the leftmost tag first and for the
\* split pair last
ExtractTagFirst(s, fallback) ==
    With(AddedPairSearch(s, 1), LAMBDA pair :
    With(RawPrefix(s), LAMBDA prefix :
    With(FirstTag(s, 1), LAMBDA found :
        IF s = <<>> THEN fallback
        ELSE IF found # <<>> THEN found
        ELSE IF prefix # <<>> THEN prefix
        ELSE IF pair # <<>> THEN pair[1] \o <<"+">> \o pair[2]
        ELSE fallback)))

\* _extract_minute(s, fallback); <<>> is the None (or empty) minute, which the
\* caller tests with  if not minute
_extract_minute(s, fallback) ==
    With(AddedPairSearch(s, 1), LAMBDA pair :
    With(StartMin(s), LAMBDA tag :
    With(RawPrefix(s), LAMBDA prefix :
    With(FirstTag(s, 1), LAMBDA found :
        IF s = <<>> THEN fallback
        ELSE IF pair # <<>> THEN pair[1] \o <<"+">> \o pair[2]
        ELSE IF tag # <<>> THEN tag
        ELSE IF prefix # <<>> THEN prefix
        ELSE IF found # <<>> THEN found
        ELSE fallback))))

\* ------------------------------------------------------------------------
\* The patterns of the classifier
\* ------------------------------------------------------------------------
QUOTE == "\""
LDQUO == "<ldquo>"     \* U+201C
RDQUO == "<rdquo>"     \* U+201D

\* [A-Z][a-z]+ on a whole word; under re.I any word of two letters or more
IsName(w, ci) ==
    IF ci THEN IsWord(w) /\ w \notin OneLetterWords ELSE w \in CapWords

\* [A-Z][a-z]+(?:\s[A-Z][a-z]+)? at p: the position after the two-word
\* reading, or 0
TwoWordEnd(s, p, ci) ==
    IF IsName(At(s, p), ci) /\ IsWs(At(s, p + 1)) /\ IsName(At(s, p + 2), ci)
    THEN p + 3 ELSE 0

\* LABEL_PREFIX = ^([A-Z][A-Z !\-]+!\s*)+ : one group tried at p, giving the
\* position after it, or 0
LabelClass == UpWords \cup {SP, "!", "-"}

LastBang(s, lo, hi) == Greatest({k \in lo..hi : s[k] = "!"})

\* a one-letter word leaves the class its first character to find
LabelGroupAt(s, p) ==
    IF At(s, p) \notin UpWords THEN 0
    ELSE With(LastBang(s, IF s[p] \in OneLetterWords THEN p + 2 ELSE p + 1,
                       p + RunLen(s, p + 1, LabelClass)), LAMBDA q :
             IF q = 0 THEN 0 ELSE SkipWs(s, q + 1))

RECURSIVE LabelEnd(_, _)
LabelEnd(s, p) ==
    With(LabelGroupAt(s, p), LAMBDA e : IF e = 0 THEN p ELSE LabelEnd(s, e))

\* the length of lp.group(0), 0 when LABEL_PREFIX does not match
LabelLen(s) == LabelEnd(s, 1) - 1

\* QUOTE_PAT = ["“](.+?)["”] : findall from p on
CloserFrom(s, p) == Least({k \in p..Len(s) : s[k] \in {QUOTE, RDQUO}})

QuoteAt(s, p) ==
    With(CloserFrom(s, p + 2), LAMBDA c :
        IF s[p] \in {QUOTE, LDQUO} /\ c # 0
        THEN [out |-> <<Slice(s, p + 1, c - 1)>>, next |-> c + 1]
        ELSE [out |-> <<>>, next |-> p + 1])

Quotes(s, p) == Scan(QuoteAt, s, p)

\* [A-Za-z0-9 .'\-]
NameClass == Words \cup Digits \cup {SP, ".", "'", "-"}

NoSub == [ok |-> FALSE, team |-> <<>>, on |-> <<>>, off |-> <<>>]

\* the first k >= lo with s[k] the word "replaces" between blanks, something
\* before it and something after it; 0 if none
ReplacesFrom(s, r, lo) ==
    Least({k \in lo..Len(s) :
             /\ Lower(s[k]) = "replaces" /\ k >= r + 2 /\ IsWs(s[k - 1])
             /\ IsWs(At(s, k + 1)) /\ k + 2 <= Len(s)})

\* \s*([^:]+?)\s+replaces\s+([^:]+?)[.!]?\s*$ on s from r on
SubRest(s, r) ==
    With(IF ":" \in Range(Slice(s, r, Len(s))) THEN 0 ELSE ReplacesFrom(s, r, r), LAMBDA k :
    With(Strip(Slice(s, k + 1, Len(s))), LAMBDA body :
        IF k = 0 THEN NoSub
        ELSE [ok |-> TRUE, team |-> <<>>, on |-> Strip(Slice(s, r, k - 1)),
              off |-> IF Len(body) >= 2 /\ body[Len(body)] \in {".", "!"}
                      THEN Strip(Slice(body, 1, Len(body) - 1)) ELSE body]))

\* the largest q in lo..hi with s[q] a separator the rest can follow; 0 if none
LastSep(s, lo, hi) ==
    Greatest({k \in lo..hi : s[k] \in {":", "."} /\ SubRest(s, k + 1).ok})

\* SUB_PAT_1 = ^substitution,\s*([A-Za-z0-9 .'\-]+)\s*[:.]\s*([^:]+?)\s+replaces\s+([^:]+?)[.!]?\s*$
\* (re.I), matched at the start of s.  The team group is greedy: it runs to
\* the last separator that still leaves  <on> replaces <off>  behind it.
\* If the group finds nothing else, the blank before the separator is the
\* whole of it.
SUB_PAT_1(s) ==
    With(SkipWs(s, 3), LAMBDA a :
    With(a + RunLen(s, a, NameClass), LAMBDA e :
    With(LastSep(s, a + 1, IF At(s, e) = ":" THEN e ELSE e - 1), LAMBDA q :
    With(SubRest(s, IF q # 0 THEN q + 1 ELSE a + 1), LAMBDA rest :
        IF ~(Lower(At(s, 1)) = "substitution" /\ At(s, 2) = ",") THEN NoSub
        ELSE IF q # 0 THEN [rest EXCEPT !.team = Strip(Slice(s, a, q - 1))]
        ELSE IF a > 3 /\ s[a - 1] = SP /\ At(s, a) \in {":", "."} /\ rest.ok THEN rest
        ELSE NoSub))))

\* \s+(?:comes on|on)\s+for\s+(NAME) from q on: the position of NAME, or 0
OnForAt(s, q) ==
    With(SkipWs(s, q), LAMBDA w :
    With(IF Lower(At(s, w)) = "comes" /\ At(s, w + 1) = SP
               /\ Lower(At(s, w + 2)) = "on" /\ IsWs(At(s, w + 3))
               /\ Lower(At(s, SkipWs(s, w + 3))) = "for"
         THEN w + 3
         ELSE IF Lower(At(s, w)) = "on" THEN w + 1 ELSE 0, LAMBDA o :
    With(SkipWs(s, o), LAMBDA f :
    With(SkipWs(s, f + 1), LAMBDA x :
        IF w > q /\ o # 0 /\ f > o /\ Lower(At(s, f)) = "for" /\ x > f + 1
           /\ IsName(At(s, x), TRUE)
        THEN x ELSE 0))))

\* SUB_PAT_2 = \b(NAME)\s+(?:comes on|on)\s+for\s+(NAME)   (re.I), search
SubPat2At(s, p) ==
    With(TwoWordEnd(s, p, TRUE), LAMBDA two :
    With(IF two # 0 THEN OnForAt(s, two) ELSE 0, LAMBDA x2 :
    With(IF x2 # 0 THEN x2 ELSE OnForAt(s, p + 1), LAMBDA x :
        IF Boundary(s, p) /\ IsName(s[p], TRUE) /\ x # 0
        THEN [ok |-> TRUE, team |-> <<>>,
              on |-> IF x2 # 0 THEN Slice(s, p, p + 2) ELSE <<s[p]>>,
              off |-> Slice(s, x, IF TwoWordEnd(s, x, TRUE) # 0 THEN x + 2 ELSE x)]
        ELSE NoSub)))

SUB_PAT_2(s, p) ==
    With(Least({q \in p..Len(s) : SubPat2At(s, q).ok}), LAMBDA k :
        IF k = 0 THEN NoSub ELSE SubPat2At(s, k))

NoParens == [ok |-> FALSE, name |-> <<>>, team |-> <<>>, end |-> 0]

\* (NAME)\s*\(([^)]+)\) at p, NAME of two words if that can be
\* \s*\(([^)]+)\) at y, the position after a NAME that starts at p
ParensAfter(s, p, y) ==
    With(SkipWs(s, y), LAMBDA w :
    With(IF At(s, w) = "(" THEN IndexFrom(s, ")", w + 1) ELSE 0, LAMBDA c :
        IF c >= w + 2 THEN [ok |-> TRUE, name |-> Slice(s, p, y - 1),
                            team |-> Slice(s, w + 1, c - 1), end |-> c + 1]
        ELSE NoParens))

NameParensAt(s, p, ci) ==
    With(TwoWordEnd(s, p, ci), LAMBDA two :
    With(IF two # 0 THEN ParensAfter(s, p, two) ELSE NoParens, LAMBDA long :
        IF ~IsName(At(s, p), ci) THEN NoParens
        ELSE IF long.ok THEN long
        ELSE ParensAfter(s, p, p + 1)))

\* NAME_TEAM_PARENS = \b([A-Z][a-z]+(?:\s[A-Z][a-z]+)?)\s*\(([^)]+)\) : findall
NameTeamParensAt(s, p) ==
    With(IF Boundary(s, p) THEN NameParensAt(s, p, FALSE) ELSE NoParens, LAMBDA m :
        IF m.ok THEN [out |-> <<m>>, next |-> m.end]
        ELSE [out |-> <<>>, next |-> p + 1])

NAME_TEAM_PARENS(s, p) == Scan(NameTeamParensAt, s, p)

\* GOAL_PAT = goal!\s*[^.]*?\.\s*(NAME)\s*\(([^)]+)\)   (re.I), search
GoalPatAt(s, p) ==
    With(IF (Lower(s[p]) = "goal" \/ <<Lower(s[p]), "goal">> \in SuffixPairs)
               /\ At(s, p + 1) = "!"
         THEN IndexFrom(s, ".", p + 2) ELSE 0, LAMBDA d :
        IF d # 0 THEN NameParensAt(s, SkipWs(s, d + 1), TRUE) ELSE NoParens)

GOAL_PAT(s, p) ==
    With(Least({q \in p..Len(s) : GoalPatAt(s, q).ok}), LAMBDA k :
        IF k = 0 THEN NoParens ELSE GoalPatAt(s, k))

\* \b(NAME)\b, lazily, from p on: the first name there is, or <<>>
NameAt(s, p) ==
    With(TwoWordEnd(s, p, TRUE), LAMBDA two :
        IF ~Boundary(s, p) THEN <<>>
        ELSE IF two # 0 /\ Boundary(s, two) THEN Slice(s, p, p + 2)
        ELSE IF IsName(s[p], TRUE) /\ Boundary(s, p + 1) THEN <<s[p]>>
        ELSE <<>>)

FirstNameFrom(s, p) ==
    With(Least({q \in p..Len(s) : NameAt(s, q) # <<>>}), LAMBDA k :
        IF k = 0 THEN <<>> ELSE NameAt(s, k))

\* a phrase of whole words ( \b phrase \b, re.I ) at p: the position after it, or 0
PhraseAt(s, p, ph) ==
    IF /\ p + Len(ph) - 1 <= Len(s)
       /\ \A j \in 1..Len(ph) : Lower(s[p + j - 1]) = ph[j]
       /\ Boundary(s, p) /\ Boundary(s, p + Len(ph))
    THEN p + Len(ph) ELSE 0

\* \b(?:phrases)\b.*?\b(NAME)\b : search, phrases tried in their order
NameAfterPhraseAt(s, p, phs) ==
    With(Least({i \in DOMAIN phs : PhraseAt(s, p, phs[i]) # 0}), LAMBDA first :
        IF first = 0 THEN <<>> ELSE FirstNameFrom(s, PhraseAt(s, p, phs[first])))

NameAfterPhrase(s, p, phs) ==
    With(Least({q \in p..Len(s) : NameAfterPhraseAt(s, q, phs) # <<>>}), LAMBDA k :
        IF k = 0 THEN <<>> ELSE NameAfterPhraseAt(s, k, phs))

YC_PAT_1(s) == NameAfterPhrase(s, 1, <<(<<"yellow", SP, "card">>), (<<"booked">>)>>)

RC_PAT_1(s) ==
    NameAfterPhrase(s, 1, <<(<<"red", SP, "card">>), (<<"sent", SP, "off">>), (<<"dismissal">>)>>)

\* \bto\s+(NAME)\b, lazily, from p on
ToNameAt(s, p) ==
    With(SkipWs(s, p + 1), LAMBDA y :
    With(TwoWordEnd(s, y, TRUE), LAMBDA two :
        IF ~(Boundary(s, p) /\ Lower(s[p]) = "to" /\ y > p + 1) THEN <<>>
        ELSE IF two # 0 /\ Boundary(s, two) THEN Slice(s, y, y + 2)
        ELSE IF IsName(At(s, y), TRUE) /\ Boundary(s, y + 1) THEN <<s[y]>>
        ELSE <<>>))

NameAfterTo(s, p) ==
    With(Least({q \in p..Len(s) : ToNameAt(s, q) # <<>>}), LAMBDA k :
        IF k = 0 THEN <<>> ELSE ToNameAt(s, k))

\* RC_PAT_2 = \bsecond yellow card\b.*?\bto\s+(NAME)\b   (re.I), search
RcPat2At(s, p) ==
    With(PhraseAt(s, p, <<"second", SP, "yellow", SP, "card">>), LAMBDA e :
        IF e # 0 THEN NameAfterTo(s, e) ELSE <<>>)

RC_PAT_2(s, p) ==
    With(Least({q \in p..Len(s) : RcPat2At(s, q) # <<>>}), LAMBDA k :
        IF k = 0 THEN <<>> ELSE RcPat2At(s, k))

NoTeam == [ok |-> FALSE, team |-> <<>>]

\* ^<word>,\s*([A-Za-z0-9 .'\-]+)   (re.I): the team group, stripped
TeamPrefixed(s, word) ==
    With(SkipWs(s, 3), LAMBDA a :
    With(RunLen(s, a, NameClass), LAMBDA r :
        IF ~(Lower(At(s, 1)) = word /\ At(s, 2) = ",") THEN NoTeam
        ELSE IF r > 0 THEN [ok |-> TRUE, team |-> Strip(Slice(s, a, a + r - 1))]
        ELSE IF a > 3 /\ s[a - 1] = SP THEN [ok |-> TRUE, team |-> <<>>]
        ELSE NoTeam))

CORNER_PAT(s) == TeamPrefixed(s, "corner")

OFFSIDE_PAT(s) == TeamPrefixed(s, "offside")

\* ------------------------------------------------------------------------
\* Teams, players, ownership
\* ------------------------------------------------------------------------
\* a player, a label or a name the code leaves at None
Nil == <<None>>

\* base.replace("fc", ""): no word of the inputs but "fc" itself holds "fc"
DropFc(s) == SelectSeq(s, LAMBDA w : w # "fc")

\* build_team_aliases before list(): the set of aliases
AliasSet(team) ==
    With(Strip(DropFc(_norm(team))), LAMBDA t :
        {_norm(team), t}
          \cup (IF Contains(t, <<"united">>) \/ Contains(t, <<"utd">>)
                THEN {<<"manchester", SP, "united">>, <<"man", SP, "utd">>,
                      <<"manchester", SP, "utd">>, <<"united">>}
                ELSE {})
          \cup (IF Contains(t, <<"chelsea">>) THEN {<<"chelsea">>} ELSE {}))

\* the lists a set can be turned into
Orderings(S) ==
    {q \in [1..Cardinality(S) -> S] : \A i, j \in 1..Cardinality(S) : i # j => q[i] # q[j]}

\* build_team_aliases: list(aliases) comes in an order the set decides; every
\* order is a possible result
build_team_aliases(team) == Orderings(AliasSet(team))

\* x in aliases (list membership)
InList(x, l) == \E i \in DOMAIN l : l[i] = x

\* any(a in text for a in aliases)
AnyAliasIn(text, aliases) == \E i \in DOMAIN aliases : Contains(text, aliases[i])

\* the characters of a text
Chars(s) ==
    Concat([i \in 1..Len(s) |-> IF s[i] \in DOMAIN Letters THEN Letters[s[i]] ELSE <<s[i]>>])

\* the order of the characters that names are made of
CharOrder ==
    <<" ", "'", "-", ".",
      "0", "1", "2", "3", "4", "5", "6", "7", "8", "9",
      "A", "B", "C", "D", "E", "F", "G", "H", "I", "J", "K", "L", "M",
      "N", "O", "P", "Q", "R", "S", "T", "U", "V", "W", "X", "Y", "Z",
      "a", "b", "c", "d", "e", "f", "g", "h", "i", "j", "k", "l", "m",
      "n", "o", "p", "q", "r", "s", "t", "u", "v", "w", "x", "y", "z">>

Rank(c) == CHOOSE i \in DOMAIN CharOrder : CharOrder[i] = c

\* a <= b for two strings of characters
StrLeq(a, b) ==
    With(Least({k \in 1..Len(a) : k > Len(b) \/ a[k] # b[k]}), LAMBDA d :
        IF d = 0 THEN TRUE
        ELSE IF d > Len(b) THEN FALSE
        ELSE Rank(a[d]) < Rank(b[d]))

\* str.split(): the blank-separated tokens of a string of characters
SplitTokens(s) ==
    With(Ascending({k \in 1..Len(s) : ~IsWs(s[k]) /\ (k = 1 \/ IsWs(s[k - 1]))}), LAMBDA starts :
        [i \in 1..Len(starts) |-> Slice(s, starts[i], StopAt(s, starts[i], Ws) - 1)])

\* sorted(l): the place of token i is one more than the number of tokens
\* that come before it
Before(l, j, i) == IF l[j] = l[i] THEN j < i ELSE StrLeq(l[j], l[i])

SortTokens(l) ==
    [r \in 1..Len(l) |->
        l[CHOOSE i \in DOMAIN l : 1 + Cardinality({j \in DOMAIN l : j # i /\ Before(l, j, i)}) = r]]

JoinTokens(l) == Concat([i \in 1..Len(l) |-> IF i = 1 THEN l[i] ELSE <<SP>> \o l[i]])

\* " ".join(sorted(s.split()))
TokenSorted(s) == JoinTokens(SortTokens(SplitTokens(s)))

Max(S) == Greatest(S)

\* one row of the longest-common-subsequence table: row[j + 1] is the length
\* for the prefix of a ending in x and the first j characters of b, which is
\* the length without x or one more than the length before a b[k] = x
LcsRow(prev, x, b) ==
    [j1 \in 1..(Len(b) + 1) |->
        Max({prev[j1]} \cup {prev[k] + 1 : k \in {m \in 1..(j1 - 1) : b[m] = x}})]

RECURSIVE LcsRows(_, _, _, _)
LcsRows(a, i, b, prev) ==
    IF Len(prev) = 0 \/ i > Len(a) THEN prev[Len(b) + 1]
    ELSE LcsRows(a, i + 1, b, LcsRow(prev, a[i], b))

\* the length of the longest common subsequence, row by row along the
\* shorter of the two
Lcs(a, b) ==
    IF Len(a) <= Len(b) THEN LcsRows(a, 1, b, [j \in 1..(Len(b) + 1) |-> 0])
    ELSE LcsRows(b, 1, a, [j \in 1..(Len(a) + 1) |-> 0])

\* fuzz.token_sort_ratio(a, b) as a fraction: 100 * 2 * lcs / (len + len)
Score(a, b) ==
    With(TokenSorted(Chars(a)), LAMBDA x :
    With(TokenSorted(Chars(b)), LAMBDA y :
        [num |-> 200 * Lcs(x, y), den |-> Len(x) + Len(y)]))

\* score >= cut
AtLeast(sc, cut) == IF sc.den = 0 THEN 100 >= cut ELSE sc.num >= cut * sc.den

Better(s1, s2) ==
    IF s1.den = 0 \/ s2.den = 0 THEN s1.den = 0 /\ s2.den # 0
    ELSE s1.num * s2.den > s2.num * s1.den

FuzzyCut == 86

\* a fuzzy match that takes the best entry of the roster whatever its score
FuzzyBest(name, roster) ==
    With([i \in DOMAIN roster |-> Score(name, roster[i])], LAMBDA sc :
    With(Least({i \in DOMAIN roster : \A j \in DOMAIN roster : ~Better(sc[j], sc[i])}), LAMBDA best :
        IF name = <<>> \/ Len(sc) = 0 THEN Nil ELSE roster[best]))

\* fuzzy_in(name, roster): the first roster entry of the best score, if that
\* score reaches the cut; Nil otherwise
fuzzy_in(name, roster) ==
    With([i \in DOMAIN roster |-> Score(name, roster[i])], LAMBDA sc :
    With(Least({i \in DOMAIN roster : \A j \in DOMAIN roster : ~Better(sc[j], sc[i])}), LAMBDA best :
        IF name = <<>> \/ Len(sc) = 0 THEN Nil
        ELSE IF AtLeast(sc[best], FuzzyCut) THEN roster[best] ELSE Nil))

\* re.findall(r"\b[A-Z][a-z]+(?:\s[A-Z][a-z]+)?\b", line) from p on
CapTokenAt(s, p) ==
    With(TwoWordEnd(s, p, FALSE), LAMBDA two :
        IF ~Boundary(s, p) THEN [out |-> <<>>, next |-> p + 1]
        ELSE IF two # 0 /\ Boundary(s, two)
        THEN [out |-> <<Slice(s, p, p + 2)>>, next |-> two]
        ELSE IF IsName(s[p], FALSE) /\ Boundary(s, p + 1)
        THEN [out |-> <<(<<s[p]>>)>>, next |-> p + 1]
        ELSE [out |-> <<>>, next |-> p + 1])

CapTokens(s, p) == Scan(CapTokenAt, s, p)

NoPlayer == [player |-> Nil, idx |-> 0]

\* the capitalised tokens, in order, against roster 1 and then roster 2
FuzzyIdx(cap, roster1, roster2) ==
    IF fuzzy_in(cap, roster1) # Nil THEN 1
    ELSE IF fuzzy_in(cap, roster2) # Nil THEN 2
    ELSE 0

FuzzyTier(caps, roster1, roster2) ==
    With([i \in DOMAIN caps |-> FuzzyIdx(caps[i], roster1, roster2)], LAMBDA hit :
    With(Least({i \in DOMAIN caps : hit[i] # 0}), LAMBDA k :
        IF k = 0 THEN NoPlayer ELSE [player |-> caps[k], idx |-> hit[k]]))

\* detect_player(line, roster1, roster2); idx 0 is None
\* the index of the first name of a roster that the text holds, 0 if none
FirstIn(low, roster) == Least({i \in DOMAIN roster : Contains(low, _norm(roster[i]))})

detect_player(line, roster1, roster2) ==
    With(FirstIn(_norm(line), roster1), LAMBDA k1 :
    With(FirstIn(_norm(line), roster2), LAMBDA k2 :
        IF k1 # 0 THEN [player |-> roster1[k1], idx |-> 1]
        ELSE IF k2 # 0 THEN [player |-> roster2[k2], idx |-> 2]
        ELSE FuzzyTier(CapTokens(line, 1), roster1, roster2)))

\* the team index of the first (Team) of a list that names a team; 0 is None
NamedIdx(team, aliases1, aliases2) ==
    IF AnyAliasIn(_norm(team), aliases1) THEN 1
    ELSE IF AnyAliasIn(_norm(team), aliases2) THEN 2
    ELSE 0

FirstTeamOf(found, aliases1, aliases2) ==
    With([i \in DOMAIN found |-> NamedIdx(found[i].team, aliases1, aliases2)], LAMBDA idx :
    With(Least({i \in DOMAIN found : idx[i] # 0}), LAMBDA k :
        IF k = 0 THEN 0 ELSE idx[k]))

_team_idx_from_parens(line, aliases1, aliases2) ==
    FirstTeamOf(NAME_TEAM_PARENS(line, 1), aliases1, aliases2)

\* an ownership resolution that stops at the team names and never asks the
\* rosters
OwnsByTextOnly(line, aliases1, aliases2, roster1, roster2) ==
    With(_team_idx_from_parens(line, aliases1, aliases2), LAMBDA idx :
        IF idx # 0 THEN idx ELSE NamedIdx(line, aliases1, aliases2))

\* owns_event(line, aliases1, aliases2, roster1, roster2); 0 is None
owns_event(line, aliases1, aliases2, roster1, roster2) ==
    With(_team_idx_from_parens(line, aliases1, aliases2), LAMBDA idx :
    With(NamedIdx(line, aliases1, aliases2), LAMBDA named :
        IF idx # 0 THEN idx
        ELSE IF named # 0 THEN named
        ELSE detect_player(line, roster1, roster2).idx))

\* parse_goal(line, aliases1, aliases2): the scorer and the team index
parse_goal(line, aliases1, aliases2) ==
    With(GOAL_PAT(line, 1), LAMBDA m :
        IF ~m.ok THEN [scorer |-> Nil, team_idx |-> 0]
        ELSE [scorer |-> m.name, team_idx |-> NamedIdx(m.team, aliases1, aliases2)])

\* ------------------------------------------------------------------------
\* The classifier: one line of parse_events_unbiased
\* ------------------------------------------------------------------------
Ev(minute, etype, player, note) ==
    [t |-> minute, etype |-> etype, player |-> player, note |-> note]

\* f"{base}_{'US' if ours else 'OPP'}"
Sided(base, ours) ==
    LET us  == [SUB |-> "SUB_US", CORNER |-> "CORNER_US", OFFSIDE |-> "OFFSIDE_US",
                DISALLOWED_GOAL |-> "DISALLOWED_GOAL_US", SAVE |-> "SAVE_US",
                BLOCK |-> "BLOCK_US", FOUL |-> "FOUL_US", FREEKICK |-> "FREEKICK_US"]
        opp == [SUB |-> "SUB_OPP", CORNER |-> "CORNER_OPP", OFFSIDE |-> "OFFSIDE_OPP",
                DISALLOWED_GOAL |-> "DISALLOWED_GOAL_OPP", SAVE |-> "SAVE_OPP",
                BLOCK |-> "BLOCK_OPP", FOUL |-> "FOUL_OPP", FREEKICK |-> "FREEKICK_OPP"]
    IN  IF ours THEN us[base] ELSE opp[base]

\* the types that  elif etype in ("SAVE", "BLOCK", "FOUL", "FREEKICK")  suffixes
SuffixedTypes == {"SAVE", "BLOCK", "FOUL", "FREEKICK"}

\* a mapping that lets the base type through as it is
Unmapped(etype, ours) == etype

\* mapped (lines 325-331): the base type of an attempt, foul or free kick
\* turned into the type of the event
Mapped(etype, ours) ==
    IF etype = "GOAL" THEN (IF ours THEN "OUR_GOAL" ELSE "OPP_GOAL")
    ELSE IF etype = "MISS"
         THEN (IF ours THEN "OUR_BIG_CHANCE_MISSED" ELSE "OPP_BIG_CHANCE_MISSED")
    ELSE IF etype \in SuffixedTypes THEN Sided(etype, ours)
    ELSE etype

\* ours = (idx == 1) if our_is_1 else (idx == 2)
Ours(idx, our_is_1) == IF our_is_1 THEN idx = 1 ELSE idx = 2

\* idx = 1 if _norm(team) in aliases1 else 2 if _norm(team) in aliases2 else None
TeamIdx(team, aliases1, aliases2) ==
    IF InList(_norm(team), aliases1) THEN 1
    ELSE IF InList(_norm(team), aliases2) THEN 2 ELSE 0

\* x or 1
OrOne(idx) == IF idx = 0 THEN 1 ELSE idx

\* the events for the quotes of a line
QuoteEvents(minute, qs) == [i \in 1..Len(qs) |-> Ev(minute, "QUOTE", Nil, Strip(qs[i]))]

\* the base type of lines 314-318, "" if none
AttemptType(low) ==
    IF HasKeyword(low, "save") THEN "SAVE"
    ELSE IF HasKeyword(low, "block") THEN "BLOCK"
    ELSE IF HasKeyword(low, "miss") THEN "MISS"
    ELSE IF HasKeyword(low, "foul") THEN "FOUL"
    ELSE IF HasKeyword(low, "freekick") THEN "FREEKICK"
    ELSE ""

\* the substitution event of lines 221-239, given the match
SubEvent(minute, m, idx, our_is_1, line_wo_label) ==
    <<Ev(minute, Sided("SUB", Ours(idx, our_is_1)), m.on,
         m.on \o <<SP, "on", SP, "for", SP>> \o m.off \o <<".", SP>> \o line_wo_label)>>

\* a red-card rule that books the player instead
CardAsYellow(minute, line, who, owner) ==
    <<Ev(minute, "YC_US", Nil, line)>>

\* who_idx = who or owns_event(line, ...) or 1
WhoIdx(who, owner) == IF who # 0 THEN who ELSE OrOne(owner)

\* lines 252-265, with who = _team_idx_from_parens(line, ...) and owner =
\* owns_event(line, ...)
RedCard(minute, line, who, owner) ==
    With(RC_PAT_2(line, 1), LAMBDA to :
    With(RC_PAT_1(line), LAMBDA sent :
        <<Ev(minute, IF WhoIdx(who, owner) = 1 THEN "RC_US" ELSE "RC_OPP",
             IF to # <<>> THEN to ELSE IF sent # <<>> THEN sent ELSE Nil, line)>>))

\* lines 268-285, with who and owner as for the red card
YellowCard(minute, line, low, who, owner) ==
    With(NAME_TEAM_PARENS(line, 1), LAMBDA par :
    With(YC_PAT_1(line), LAMBDA booked :
        IF Contains(low, <<"second", SP, "yellow", SP, "card">>) THEN <<>>
        ELSE <<Ev(minute, IF WhoIdx(who, owner) = 1 THEN "YC_US" ELSE "YC_OPP",
                  IF par # <<>> THEN par[1].name
                  ELSE IF booked # <<>> THEN booked ELSE Nil, line)>>))

\* lines 241-248, with owner = owns_event(line, ...) and found =
\* detect_player(line, roster1, roster2)
Goal(minute, line, aliases1, aliases2, owner, found) ==
    With(parse_goal(line, aliases1, aliases2), LAMBDA g :
        <<Ev(minute, IF WhoIdx(g.team_idx, owner) = 1 THEN "OUR_GOAL" ELSE "OPP_GOAL",
             IF g.scorer # Nil THEN g.scorer ELSE found.player, line)>>)

\* an attempt rule that does not end the line: the event of the label follows
\* that of the attempt
AttemptAndLabel(minute, etype, label, line_wo_label, d, owner, our_is_1) ==
    (IF etype # ""
     THEN <<Ev(minute, Mapped(etype, Ours(IF d.idx = 0 THEN owner ELSE d.idx, our_is_1)),
               d.player,
               IF label = Nil \/ label = <<>> THEN line_wo_label
               ELSE <<"[">> \o Strip(label) \o <<"]", SP>> \o line_wo_label)>>
     ELSE <<>>)
    \o (IF label # Nil /\ label # <<>> THEN <<Ev(minute, "LABEL", Nil, line_wo_label)>> ELSE <<>>)

\* lines 320-339: an attempt, a foul, a free kick, or a bare label, with d =
\* detect_player(line_wo_label, ...) and owner = owns_event(line_wo_label, ...)
Attempt(minute, etype, label, line_wo_label, d, owner, our_is_1) ==
    IF etype # ""
    THEN <<Ev(minute, Mapped(etype, Ours(IF d.idx = 0 THEN owner ELSE d.idx, our_is_1)),
              d.player,
              IF label = Nil \/ label = <<>> THEN line_wo_label
              ELSE <<"[">> \o Strip(label) \o <<"]", SP>> \o line_wo_label)>>
    ELSE IF label # Nil /\ label # <<>>
    THEN <<Ev(minute, "LABEL", Nil, line_wo_label)>>
    ELSE <<>>

\* lines 212-339: the event of a line that has a minute, after its quotes.
\* own and det are owns_event and detect_player on the line and on the line
\* without its label.
Rules(minute, line, label, line_wo_label, low, aliases1, aliases2, our_is_1, msub1, msub2, mcorner, moff, who, ownLine, detLine, ownRest, detRest) ==
    IF HasKeyword(low, "ko") THEN <<Ev(minute, "KICK_OFF", Nil, line)>>
    ELSE IF HasKeyword(low, "ht") \/ HasKeyword(low, "ft") THEN <<>>
    ELSE IF Contains(low, <<"delay", SP, "in", SP, "match">>)
        THEN <<Ev(minute, "DELAY", Nil, line)>>
    ELSE IF Contains(low, <<"delay", SP, "over">>)
        THEN <<Ev(minute, "RESUME", Nil, line)>>
    ELSE IF Contains(low, <<"added", SP, "time">>) \/ Contains(low, <<"has", SP, "announced">>)
        THEN <<Ev(minute, "ADDED_TIME", Nil, line)>>
    ELSE IF msub1.ok
        THEN SubEvent(minute, msub1, TeamIdx(msub1.team, aliases1, aliases2),
                      our_is_1, line_wo_label)
    ELSE IF msub2.ok
        THEN SubEvent(minute, msub2, detRest.idx, our_is_1, line_wo_label)
    ELSE IF HasKeyword(low, "goal")
        THEN Goal(minute, line, aliases1, aliases2, ownLine, detLine)
    ELSE IF HasKeyword(low, "rc")
        THEN RedCard(minute, line, who, ownLine)
    ELSE IF HasKeyword(low, "yc")
        THEN YellowCard(minute, line, low, who, ownLine)
    ELSE IF mcorner.ok
        THEN <<Ev(minute, Sided("CORNER", Ours(TeamIdx(mcorner.team, aliases1, aliases2),
                                               our_is_1)), Nil, line_wo_label)>>
    ELSE IF moff.ok
        THEN <<Ev(minute, Sided("OFFSIDE", Ours(TeamIdx(moff.team, aliases1, aliases2),
                                                our_is_1)), Nil, line_wo_label)>>
    ELSE IF HasKeyword(low, "disallowed")
        THEN <<Ev(minute, Sided("DISALLOWED_GOAL", Ours(ownRest, our_is_1)),
                  Nil, line_wo_label)>>
    ELSE Attempt(minute, AttemptType(low), label, line_wo_label, detRest, ownRest, our_is_1)

Classify(minute, line, label, line_wo_label, aliases1, aliases2, roster1, roster2, our_is_1) ==
    Rules(minute, line, label, line_wo_label, _norm(line_wo_label), aliases1, aliases2,
          our_is_1,
          SUB_PAT_1(line_wo_label), SUB_PAT_2(line_wo_label, 1),
          CORNER_PAT(line_wo_label), OFFSIDE_PAT(line_wo_label),
          _team_idx_from_parens(line, aliases1, aliases2),
          owns_event(line, aliases1, aliases2, roster1, roster2),
          detect_player(line, roster1, roster2),
          owns_event(line_wo_label, aliases1, aliases2, roster1, roster2),
          detect_player(line_wo_label, roster1, roster2))

\* a line whose quotes come after its event, and are left out where a rule
\* gives no event
QuotesLast(minute, line, n, aliases1, aliases2, roster1, roster2, our_is_1) ==
    With(Slice(line, n + 1, Len(line)), LAMBDA line_wo_label :
    With(Classify(minute, line, IF n > 0 THEN Strip(Slice(line, 1, n)) ELSE Nil,
                  line_wo_label, aliases1, aliases2, roster1, roster2, our_is_1), LAMBDA evs :
        IF evs = <<>> THEN <<>> ELSE evs \o QuoteEvents(minute, Quotes(line_wo_label, 1))))

\* the line after its minute is known (lines 195-339): label, quotes, event
Labelled(minute, line, n, aliases1, aliases2, roster1, roster2, our_is_1) ==
    With(Slice(line, n + 1, Len(line)), LAMBDA line_wo_label :
        QuoteEvents(minute, Quotes(line_wo_label, 1))
            \o Classify(minute, line, IF n > 0 THEN Strip(Slice(line, 1, n)) ELSE Nil,
                        line_wo_label, aliases1, aliases2, roster1, roster2, our_is_1))

\* a loop body that collects the quotes of a line before it asks for its
\* minute
ParseQuotesFirst(line, cur_min, aliases1, aliases2, roster1, roster2, our_is_1) ==
    With(_extract_minute(line, cur_min), LAMBDA minute :
        IF minute = <<>> THEN [cur_min |-> cur_min, evs |-> QuoteEvents(<<"?">>, Quotes(line, 1))]
        ELSE [cur_min |-> minute,
              evs |-> Labelled(minute, line, LabelLen(line),
                               aliases1, aliases2, roster1, roster2, our_is_1)])

\* the body of the loop (lines 187-339) for one line: the minute carried on
\* and the events appended
ParseLine(line, cur_min, aliases1, aliases2, roster1, roster2, our_is_1) ==
    With(_extract_minute(line, cur_min), LAMBDA minute :
        IF minute = <<>> THEN [cur_min |-> cur_min, evs |-> <<>>]
        ELSE [cur_min |-> minute,
              evs |-> Labelled(minute, line, LabelLen(line),
                               aliases1, aliases2, roster1, roster2, our_is_1)])

\* re.split(r"\n+", text): the pieces between the runs of newlines; the
\* empty piece before a leading and after a trailing newline is left out, as
\* the  if ln.strip()  of the caller drops it
SplitNL(s) ==
    With(Ascending({k \in 1..Len(s) : s[k] # NL /\ (k = 1 \/ s[k - 1] = NL)}), LAMBDA starts :
        [i \in 1..Len(starts) |-> Slice(s, starts[i], StopAt(s, starts[i], {NL}) - 1)])

StripAll(l) == SelectSeq([i \in 1..Len(l) |-> Strip(l[i])], LAMBDA ln : ln # <<>>)

\* lines = [ln.strip() for ln in re.split(r"\n+", text) if ln.strip()]
EventLines(text) == StripAll(SplitNL(text))

\* the whole loop from its k-th line on
RECURSIVE ParseFrom(_, _, _, _, _, _, _, _)
ParseFrom(lines, k, cur_min, aliases1, aliases2, roster1, roster2, our_is_1) ==
    IF k > Len(lines) THEN <<>>
    ELSE With(ParseLine(lines[k], cur_min, aliases1, aliases2, roster1, roster2, our_is_1),
              LAMBDA r : r.evs \o ParseFrom(lines, k + 1, r.cur_min, aliases1, aliases2,
                                            roster1, roster2, our_is_1))

\* parse_events_unbiased with the alias lists as they came out of
\* build_team_aliases
parse_events_unbiased(text, aliases1, aliases2, roster1, roster2, our_team) ==
    ParseFrom(EventLines(text), 1, <<>>, aliases1, aliases2, roster1, roster2,
              InList(_norm(our_team), aliases1))

\* ------------------------------------------------------------------------
\* ingest.py
\* ------------------------------------------------------------------------
\* Within a line the inputs hold no white space but blanks, and no word
\* that ends in one of the keywords of the line patterns without being it.
MIDDOT == "<middot>"    \* U+00B7

\* TEAM_ALIASES: the pairs of a key and its canonical name
TEAM_ALIASES ==
    {<< <<"man", SP, "utd">>, <<"Manchester", SP, "United">> >>,
     << <<"manchester", SP, "utd">>, <<"Manchester", SP, "United">> >>,
     << <<"man", SP, "united">>, <<"Manchester", SP, "United">> >>,
     << <<"Manchester", SP, "Utd">>, <<"Manchester", SP, "United">> >>,
     << <<"chelsea", SP, "fc">>, <<"Chelsea">> >>}

\* table.get(key, default)
Get(table, key, default) ==
    IF \E p \in table : p[1] = key
    THEN (CHOOSE p \in table : p[1] = key)[2]
    ELSE default

\* nm.lower, the method of the string and not its lower-case form
LowerMethod == <<"<method lower>">>

\* _canon_team: TEAM_ALIASES.get(nm.lower, nm) looks up the method, not the
\* lower-case name; no key of the table is a method, so what comes back is
\* the stripped name
_canon_team(name) == Get(TEAM_ALIASES, LowerMethod, Strip(name))

\* _strip_trailing_punct: re.sub(r"[.;:,·\s]+$", "", s.strip())
TrailingPunct == {".", ";", ":", ",", MIDDOT} \cup Ws

_strip_trailing_punct(s) ==
    With(Strip(s), LAMBDA t :
        Slice(t, 1, Greatest({k \in 1..Len(t) : t[k] \notin TrailingPunct})))

\* [:'’] at q
TerminatorAt(ln, q) == At(ln, q) \in {":", "'", RSQUO}

\* ^\s*\d{1,3}(?:\+\d{1,2})?[:'’] at the start of a line: the position
\* after the terminator, or 0
RawMarkerEnd(ln) ==
    With(SkipWs(ln, 1), LAMBDA w :
    With(DigitRun(ln, w), LAMBDA n :
    With(IF At(ln, w + n) = "+" THEN DigitRun(ln, w + n + 1) ELSE 0, LAMBDA m :
        IF n < 1 \/ n > 3 THEN 0
        ELSE IF m \in 1..2 /\ TerminatorAt(ln, w + n + 1 + m) THEN w + n + m + 2
        ELSE IF TerminatorAt(ln, w + n) THEN w + n + 1
        ELSE 0)))

\* ^\s*\[MIN=\d{1,3}(?:\+\d{1,2})?\] at the start of a line: the position
\* after the bracket, or 0
TagMarkerEnd(ln) ==
    With(TagOpen(ln, SkipWs(ln, 1), FALSE), LAMBDA o :
    With(IF o # 0 THEN MinuteBody(ln, o) ELSE 0, LAMBDA e :
        IF e = 0 THEN 0 ELSE e + 1))

\* MIN_LINE_OR_TAG.match(ln)
MIN_LINE_OR_TAG(ln) == RawMarkerEnd(ln) # 0 \/ TagMarkerEnd(ln) # 0

NoLine == [ok |-> FALSE, team |-> <<>>, rhs |-> <<>>]

\* :\s*(.+)$ with the ':' at c: group 1, or <<>> if there is nothing for it.
\* If only blanks follow the ':', the last of them is the group.
RhsAfter(ln, c) ==
    With(SkipWs(ln, c + 1), LAMBDA r :
        IF At(ln, c) # ":" \/ c >= Len(ln) THEN <<>>
        ELSE IF r <= Len(ln) THEN Slice(ln, r, Len(ln))
        ELSE <<ln[Len(ln)]>>)

\* the first lexeme from a on that is not of [A-Za-z0-9 .'\-]
HeadEnd(ln, a) == a + RunLen(ln, a, NameClass)

\* the line with its head from s on, [ok, team, rhs] with the team still to
\* find: whether there is a ':' after the head and something after it
Headed(ln, s) ==
    With(RhsAfter(ln, HeadEnd(ln, s)), LAMBDA rhs :
        [ok |-> s >= 1 /\ s <= Len(ln) /\ ln[s] \in NameClass /\ rhs # <<>>,
         team |-> <<>>, rhs |-> rhs])

TeamKeywords == {<<"xi">>, <<"lineup">>, <<"starting", SP, "xi">>}

\* \s*(?:XI|Lineup|Starting XI)?\s* on the whole of r
TeamTail(r) == With(Strip(r), LAMBDA t : t = <<>> \/ _norm(t) \in TeamKeywords)

\* (?!Context\s*:) at a
ContextAt(ln, a) == Lower(At(ln, a)) = "context" /\ At(ln, SkipWs(ln, a + 1)) = ":"

\* TEAM_LINE = ^\s*(?!Context\s*:)([A-Za-z0-9 .'\-]+?)\s*(?:XI|Lineup|Starting XI)?\s*:\s*(.+)$
\* (re.I).  The leading \s* takes all the blanks and gives them back one by
\* one; group 1 is lazy and ends as early as the rest allows.
TEAM_LINE(ln) ==
    With(SkipWs(ln, 1), LAMBDA a0 :
    With(Greatest({q \in 1..a0 : (q = a0 => ~ContextAt(ln, q)) /\ Headed(ln, q).ok}), LAMBDA s :
    With(HeadEnd(ln, s), LAMBDA c :
        IF s = 0 THEN NoLine
        ELSE [Headed(ln, s) EXCEPT
                !.team = Slice(ln, s, Least({q \in s..(c - 1) :
                                               TeamTail(Slice(ln, q + 1, c - 1))}))])))

SubsKeywords == {"subs", "substitutes", "bench"}

\* the last lexeme of ln in a..(b - 1) that is not a blank, 0 if none
LastBefore(ln, a, b) == Greatest({q \in a..(b - 1) : ~IsWs(ln[q])})

\* SUBS_INLINE = ^\s*([A-Za-z0-9 .'\-]+?)\s*(?:Subs|Substitutes|Bench)\s*:\s*(.+)$
\* (re.I): the keyword is the last word before the ':', group 1 what stands
\* before it, and a single blank if nothing else does
SUBS_INLINE(ln) ==
    With(SkipWs(ln, 1), LAMBDA a0 :
    With(Headed(ln, a0), LAMBDA m :
    With(LastBefore(ln, a0, HeadEnd(ln, a0)), LAMBDA k :
    With(LastBefore(ln, a0, k), LAMBDA g :
        IF k = 0 \/ m.rhs = <<>> THEN NoLine
        ELSE IF Lower(ln[k]) \notin SubsKeywords THEN NoLine
        ELSE IF g # 0 THEN [ok |-> TRUE, team |-> Slice(ln, a0, g), rhs |-> m.rhs]
        ELSE IF a0 > 1 THEN [ok |-> TRUE, team |-> <<SP>>, rhs |-> m.rhs]
        ELSE NoLine))))

\* SUBS_BARE = ^\s*(?:Subs|Substitutes|Bench)\s*:\s*(.+)$   (re.I)
SUBS_BARE(ln) ==
    With(SkipWs(ln, 1), LAMBDA a0 :
    With(RhsAfter(ln, SkipWs(ln, a0 + 1)), LAMBDA rhs :
        IF Lower(At(ln, a0)) \in SubsKeywords /\ rhs # <<>>
        THEN [ok |-> TRUE, team |-> <<>>, rhs |-> rhs]
        ELSE NoLine))

\* rhs.count(",")
Commas(rhs) == Cardinality({k \in DOMAIN rhs : rhs[k] = ","})

\* the thresholds of _extract_frontmatter and of the commentary fallback
RosterCommas == 5

SubsCommas == 3

\* a value that is not None and not empty (what  if last_team  asks for)
Truthy(x) == x # Nil /\ x # <<>>

\* the body of the loop of _extract_frontmatter for one line, on
\* st = [ctx, lups, last], with the thresholds it is run with, the stripped
\* line and the matches mt, mi, mb of TEAM_LINE, SUBS_INLINE, SUBS_BARE
FrontMatched(ln, st, teamMin, subsMin, mt, mi, mb) ==
    IF ln = <<>> THEN st
    ELSE IF mt.ok /\ Commas(mt.rhs) >= teamMin
    THEN [st EXCEPT !.lups = Append(@, ln), !.last = Strip(mt.team)]
    ELSE IF ~mt.ok /\ mi.ok /\ Commas(mi.rhs) >= subsMin
    THEN [st EXCEPT !.lups = Append(@, ln), !.last = Strip(mi.team)]
    ELSE IF ~mt.ok /\ ~mi.ok /\ mb.ok /\ Truthy(st.last) /\ Commas(mb.rhs) >= subsMin
    THEN [st EXCEPT !.lups = Append(@, st.last \o <<SP, "Subs", ":", SP>> \o Strip(mb.rhs))]
    ELSE [st EXCEPT !.ctx = Append(@, ln)]

FrontLine(ln, st, teamMin, subsMin) ==
    FrontMatched(Strip(ln), st, teamMin, subsMin, TEAM_LINE(ln), SUBS_INLINE(ln), SUBS_BARE(ln))

RECURSIVE FrontFrom(_, _, _, _, _)
FrontFrom(front, i, st, teamMin, subsMin) ==
    IF Len(st.ctx) < 0 \/ i > Len(front) THEN st
    ELSE FrontFrom(front, i + 1, FrontLine(front[i], st, teamMin, subsMin), teamMin, subsMin)

ExtractWith(front, teamMin, subsMin) ==
    FrontFrom(front, 1, [ctx |-> <<>>, lups |-> <<>>, last |-> Nil], teamMin, subsMin)

\* a front matter that takes a line for a roster from three commas on
ExtractLoose(front) == ExtractWith(front, SubsCommas, SubsCommas)

\* a front matter that takes a line for a roster from four commas on
ExtractFromFive(front) == ExtractWith(front, RosterCommas - 1, SubsCommas)

\* _extract_frontmatter(front): [ctx, lups] (and the last team seen)
_extract_frontmatter(front) == ExtractWith(front, RosterCommas, SubsCommas)

\* raw.splitlines() of a text whose line ends are newlines: a line for each
\* start, none for the end of the text
SplitLines(s) ==
    With(Ascending({k \in 1..Len(s) : k = 1 \/ s[k - 1] = NL}), LAMBDA starts :
        [i \in 1..Len(starts) |-> Slice(s, starts[i], StopAt(s, starts[i], {NL}) - 1)])

NonBlank(ln) == Strip(ln) # <<>>

\* lines = [ln.rstrip() for ln in raw.splitlines()]
RawLinesOf(raw) ==
    With(SplitLines(raw), LAMBDA ls : [i \in 1..Len(ls) |-> RStrip(ls[i])])

\* the index of the first line that starts with a minute, 0 if there is none
FirstMinute(lines) == Least({i \in DOMAIN lines : MIN_LINE_OR_TAG(lines[i])})

\* the sections for the front matter lines 1..(first - 1)
Sections(lines, first, fm) ==
    [ctx |-> fm.ctx, lups |-> fm.lups,
     comm |-> SelectSeq(SubSeq(lines, first, Len(lines)), NonBlank)]

\* a splitter for which a text without a minute is commentary throughout
SplitAllCommentary(raw) ==
    With(RawLinesOf(raw), LAMBDA lines :
    With(FirstMinute(lines), LAMBDA first :
    With(IF first = 0 THEN 1 ELSE first, LAMBDA from :
        Sections(lines, from, _extract_frontmatter(SubSeq(lines, 1, from - 1))))))

\* split_sections(raw): [ctx, lups, comm]; without a minute all lines are
\* front matter
split_sections(raw) ==
    With(RawLinesOf(raw), LAMBDA lines :
    With(FirstMinute(lines), LAMBDA first :
    With(IF first = 0 THEN Len(lines) + 1 ELSE first, LAMBDA from :
        Sections(lines, from, _extract_frontmatter(SubSeq(lines, 1, from - 1))))))

\* re.split(r",|;|\s–\s|\s-\s|\s+–\s+", csv), one separator at p: what
\* is put out is a newline, which a line cannot hold
SeparatorAt(s, p) ==
    With(SkipWs(s, p), LAMBDA q :
        IF s[p] \in {",", ";"} THEN [out |-> <<NL>>, next |-> p + 1]
        ELSE IF IsWs(s[p]) /\ At(s, p + 1) \in {ENDASH, "-"} /\ IsWs(At(s, p + 2))
        THEN [out |-> <<NL>>, next |-> p + 3]
        ELSE IF IsWs(s[p]) /\ At(s, q) = ENDASH /\ IsWs(At(s, q + 1))
        THEN [out |-> <<NL>>, next |-> SkipWs(s, q + 1)]
        ELSE [out |-> <<s[p]>>, next |-> p + 1])

\* the stripped forms of a list of names, the empty ones left out
StripNames(l) ==
    SelectSeq([i \in 1..Len(l) |-> _strip_trailing_punct(l[i])], LAMBDA nm : nm # <<>>)

\* _norm_names(csv)
_norm_names(csv) == StripNames(SplitLines(Scan(SeparatorAt, csv, 1)))

\* dedup(seq): the stripped names, each at its first place
dedup(seq) ==
    With([i \in 1..Len(seq) |-> _strip_trailing_punct(seq[i])], LAMBDA xs :
    With(Ascending({i \in DOMAIN xs : xs[i] # <<>> /\ \A j \in 1..(i - 1) : xs[j] # xs[i]}), LAMBDA keep :
        [r \in 1..Len(keep) |-> xs[keep[r]]]))

\* teams.setdefault(team, []).extend(names) on the dict as the list of its
\* items in the order of insertion
AddNames(teams, team, names) ==
    IF \E i \in DOMAIN teams : teams[i].team = team
    THEN [i \in DOMAIN teams |->
            IF teams[i].team = team THEN [teams[i] EXCEPT !.names = @ \o names] ELSE teams[i]]
    ELSE Append(teams, [team |-> team, names |-> names])

\* the names of rhs added to the team, which is the last team from then on
TeamNames(st, team, rhs) ==
    [teams |-> AddNames(st.teams, team, _norm_names(rhs)), last |-> team]

\* the body of the loop of parse_lineups for one line, on st = [teams, last],
\* with the matches mi, mb, mt of SUBS_INLINE, SUBS_BARE, TEAM_LINE
LineupMatched(st, mi, mb, mt) ==
    IF mi.ok THEN TeamNames(st, _canon_team(Strip(mi.team)), mi.rhs)
    ELSE IF mb.ok /\ Truthy(st.last) THEN TeamNames(st, st.last, mb.rhs)
    ELSE IF mt.ok /\ _norm(Strip(mt.team)) # <<"subs">>
    THEN TeamNames(st, _canon_team(Strip(mt.team)), mt.rhs)
    ELSE st

LineupLine(ln, st) == LineupMatched(st, SUBS_INLINE(ln), SUBS_BARE(ln), TEAM_LINE(ln))

RECURSIVE LineupsFrom(_, _, _)
LineupsFrom(lines, i, st) ==
    IF Len(st.teams) < 0 \/ i > Len(lines) THEN st
    ELSE LineupsFrom(lines, i + 1, LineupLine(lines[i], st))

NoLineups == [raised |-> TRUE, team1 |-> <<>>, roster1 |-> <<>>, team2 |-> <<>>, roster2 |-> <<>>]

\* a resolver that returns what teams it has, be they fewer than two
LenientResult(teams) ==
    [raised |-> FALSE,
     team1 |-> IF Len(teams) >= 1 THEN teams[1].team ELSE <<>>,
     roster1 |-> IF Len(teams) >= 1 THEN teams[1].names ELSE <<>>,
     team2 |-> IF Len(teams) >= 2 THEN teams[2].team ELSE <<>>,
     roster2 |-> IF Len(teams) >= 2 THEN teams[2].names ELSE <<>>]

\* lines 205-218: ValueError for fewer than two teams, the first two teams
\* of the dict otherwise
LineupResult(teams) ==
    IF Len(teams) < 2 THEN NoLineups
    ELSE [raised |-> FALSE,
          team1 |-> teams[1].team, roster1 |-> dedup(teams[1].names),
          team2 |-> teams[2].team, roster2 |-> dedup(teams[2].names)]

\* parse_lineups(lineup_lines)
parse_lineups(lineup_lines) ==
    LineupResult(LineupsFrom(lineup_lines, 1, [teams |-> <<>>, last |-> Nil]).teams)

\* the line from the first lexeme after the blanks that follow position e - 1
\* on, and the whole line for e = 0
AfterPrefix(ln, e) == IF e = 0 THEN ln ELSE Slice(ln, SkipWs(ln, e), Len(ln))

\* MIN_RAW_PREFIX.sub("", MIN_TAG_PREFIX.sub("", ln)).strip()
Core(ln) ==
    With(AfterPrefix(ln, TagMarkerEnd(ln)), LAMBDA a :
        Strip(AfterPrefix(a, RawMarkerEnd(a))))

\* lineup_like.append(core_norm) and last_team = team, on st = [out, last];
\* kw is what stands between the team and the ':'
LineupLike(st, team, kw, rhs, last) ==
    [out |-> Append(st.out, team \o kw \o <<":", SP>> \o rhs), last |-> last]

\* the body of the loop of extract_lineups_from_commentary for one line, on
\* st = [out, last], with the line and the matches mi, mb, mt of
\* SUBS_INLINE, SUBS_BARE, TEAM_LINE on its core
CommentaryMatched(ln, st, mi, mb, mt) ==
    IF Strip(ln) = <<>> THEN st
    ELSE IF mi.ok
    THEN (IF Commas(Strip(mi.rhs)) >= SubsCommas
          THEN With(_canon_team(Strip(mi.team)), LAMBDA team :
                   LineupLike(st, team, <<SP, "Subs">>, Strip(mi.rhs), team))
          ELSE st)
    ELSE IF mb.ok
    THEN (IF Truthy(st.last) /\ Commas(Strip(mb.rhs)) >= SubsCommas
          THEN LineupLike(st, _canon_team(st.last), <<SP, "Subs">>, Strip(mb.rhs), st.last)
          ELSE st)
    ELSE IF mt.ok
    THEN (IF Commas(Strip(mt.rhs)) >= RosterCommas
          THEN With(_canon_team(Strip(mt.team)), LAMBDA team :
                   LineupLike(st, team, <<>>, Strip(mt.rhs), team))
          ELSE st)
    ELSE st

CommentaryLine(ln, st) ==
    With(Core(ln), LAMBDA core :
        CommentaryMatched(ln, st, SUBS_INLINE(core), SUBS_BARE(core), TEAM_LINE(core)))

RECURSIVE CommentaryFrom(_, _, _)
CommentaryFrom(lines, i, st) ==
    IF Len(st.out) < 0 \/ i > Len(lines) THEN st
    ELSE CommentaryFrom(lines, i + 1, CommentaryLine(lines[i], st))

\* extract_lineups_from_commentary(comm_lines)
extract_lineups_from_commentary(comm_lines) ==
    CommentaryFrom(comm_lines, 1, [out |-> <<>>, last |-> Nil]).out
\* ------------------------------------------------------------------------
\* memory.py
\* ------------------------------------------------------------------------
\* An item of the event list is [dict |-> BOOLEAN, val |-> its keys and
\* values]; for an item that is no dictionary val holds the item itself.

\* e.get(key)
DictGet(e, key) == IF key \in DOMAIN e.val THEN e.val[key] ELSE Nil

\* e.get(key, default)
DictGetOr(e, key, default) == IF key \in DOMAIN e.val THEN e.val[key] ELSE default

\* x or default
OrElse(x, default) == IF Truthy(x) THEN x ELSE default

\* the two guards of the loop of build_memory: the item is not skipped
Counted(e) == e.dict /\ "etype" \in DOMAIN e.val

\* et.startswith(prefix) for the event types of the parser
StartsWith(et, prefix) ==
    <<et, prefix>> \in {<<"CORNER_US", "CORNER_">>, <<"CORNER_OPP", "CORNER_">>,
                        <<"DISALLOWED_GOAL_US", "DISALLOWED_GOAL_">>,
                        <<"DISALLOWED_GOAL_OPP", "DISALLOWED_GOAL_">>,
                        <<"OUR_GOAL", "OUR_">>, <<"OUR_BIG_CHANCE_MISSED", "OUR_">>}

\* et.endswith("_US") for the event types of the parser
EndsWithUs(et) ==
    et \in {"SUB_US", "YC_US", "RC_US", "CORNER_US", "OFFSIDE_US", "DISALLOWED_GOAL_US",
            "SAVE_US", "BLOCK_US", "FOUL_US", "FREEKICK_US"}

RECURSIVE SumOver(_)
SumOver(ns) == IF ns = <<>> THEN 0 ELSE Head(ns) + SumOver(Tail(ns))

\* the dictionary a defaultdict(int) or a Counter ends as after d[k] += n for
\* the pairs of adds in turn: the keys in the order they were first added to
Ledger(adds) ==
    With(Ascending({i \in DOMAIN adds : \A j \in 1..(i - 1) : adds[j].k # adds[i].k}), LAMBDA first :
        [i \in DOMAIN first |->
            [k |-> adds[first[i]].k,
             v |-> SumOver([j \in DOMAIN adds |->
                              IF adds[j].k = adds[first[i]].k THEN adds[j].n ELSE 0])]])

\* hero[pl] += 2
HeroAdds(seen) ==
    With(SelectSeq(seen, LAMBDA e : e.val.etype = "OUR_GOAL" /\ Truthy(DictGet(e, "player"))), LAMBDA es :
        [i \in DOMAIN es |-> [k |-> es[i].val.player, n |-> 2]])

\* blame[pl] += 1
BlameAdds(seen) ==
    With(SelectSeq(seen, LAMBDA e : e.val.etype = "OUR_BIG_CHANCE_MISSED"
                                      /\ Truthy(DictGet(e, "player"))), LAMBDA es :
        [i \in DOMAIN es |-> [k |-> es[i].val.player, n |-> 1]])

\* what one item adds to pressure_for
PressureFor(e) ==
    With(e.val.etype, LAMBDA et :
          (IF et = "OUR_GOAL" /\ Truthy(DictGet(e, "player")) THEN 2 ELSE 0)
        + (IF et = "OUR_BIG_CHANCE_MISSED" /\ Truthy(DictGet(e, "player")) THEN 1 ELSE 0)
        + (IF StartsWith(et, "CORNER_") /\ EndsWithUs(et) THEN 1 ELSE 0)
        + (IF StartsWith(et, "DISALLOWED_GOAL_") /\ EndsWithUs(et) THEN 1 ELSE 0))

\* what one item adds to pressure_against
PressureAgainst(e) ==
    With(e.val.etype, LAMBDA et :
          (IF et = "OPP_GOAL" THEN 2 ELSE 0)
        + (IF et = "OPP_BIG_CHANCE_MISSED" THEN 1 ELSE 0)
        + (IF StartsWith(et, "CORNER_") /\ ~EndsWithUs(et) THEN 1 ELSE 0)
        + (IF StartsWith(et, "DISALLOWED_GOAL_") /\ ~EndsWithUs(et) THEN 1 ELSE 0))

\* what one item adds to ref_heat
RefHeat(e) ==
    With(_norm(OrElse(DictGet(e, "note"), <<>>)), LAMBDA note :
          (IF e.val.etype \in {"YC_US", "RC_US"} THEN 1 ELSE 0)
        + (IF \/ Contains(note, <<"deflect">>)
              \/ Contains(note, <<"controvers">>)
              \/ Contains(note, <<"var">>) THEN 1 ELSE 0))

\* an exception leaves the function
Raised == [raised |-> TRUE]

HasRaised(r) == "raised" \in DOMAIN r

\* {team1: roster1, team2: roster2}
Rosters(team1, roster1, team2, roster2) ==
    IF team1 = team2 THEN <<[k |-> team1, v |-> roster2]>>
    ELSE <<[k |-> team1, v |-> roster1], [k |-> team2, v |-> roster2]>>

build_memory(match_id, our_team, team1, roster1, team2, roster2, evs, context_lines) ==
    With(SelectSeq(evs, Counted), LAMBDA seen :
    With(SelectSeq(seen, LAMBDA e : e.val.etype = "QUOTE"), LAMBDA quoted :
        IF \E i \in DOMAIN quoted : "note" \notin DOMAIN quoted[i].val THEN Raised
        ELSE [match_id |-> match_id,
              team |-> our_team,
              teams |-> <<team1, team2>>,
              rosters |-> Rosters(team1, roster1, team2, roster2),
              timeline |-> evs,
              hero_ledger |-> Ledger(HeroAdds(seen)),
              blame_ledger |-> Ledger(BlameAdds(seen)),
              ref_heat |-> SumOver([i \in DOMAIN seen |-> RefHeat(seen[i])]),
              pressure_for |-> SumOver([i \in DOMAIN seen |-> PressureFor(seen[i])]),
              pressure_against |-> SumOver([i \in DOMAIN seen |-> PressureAgainst(seen[i])]),
              context |-> context_lines,
              quotes |-> [i \in DOMAIN quoted |-> quoted[i].val.note]]))

\* ------------------------------------------------------------------------
\* analytics.py
\* ------------------------------------------------------------------------
DigitChars == <<"0", "1", "2", "3", "4", "5", "6", "7", "8", "9">>

\* int() of a string of digits
RECURSIVE IntOf(_)
IntOf(ds) ==
    IF ds = <<>> THEN 0
    ELSE 10 * IntOf(Slice(ds, 1, Len(ds) - 1))
         + (CHOOSE n \in 0..9 : DigitChars[n + 1] = ds[Len(ds)])

\* str(n) of a natural number
RECURSIVE StrOf(_)
StrOf(n) == IF n < 10 THEN <<DigitChars[n + 1]>> ELSE StrOf(n \div 10) \o <<DigitChars[(n % 10) + 1]>>

IsNumber(ds) == ds # <<>> /\ \A i \in DOMAIN ds : IsDigit(ds[i])

\* _minute_val returns: m is digits, or digits + digits
MinuteOk(m) ==
    With({i \in DOMAIN m : m[i] = "+"}, LAMBDA plus :
        IF plus = {} THEN IsNumber(m)
        ELSE /\ Cardinality(plus) = 1
             /\ IsNumber(Slice(m, 1, Least(plus) - 1))
             /\ IsNumber(Slice(m, Least(plus) + 1, Len(m))))

_minute_val(m) ==
    With(Least({i \in DOMAIN m : m[i] = "+"}), LAMBDA p :
        IF p # 0 THEN IntOf(Slice(m, 1, p - 1)) + IntOf(Slice(m, p + 1, Len(m)))
        ELSE IntOf(m))

\* the names of the inputs in the order of Python's comparison of strings
NameOrder == <<(<<"Cole">>), (<<"Hogan">>), (<<"Smith">>), (<<"Unknown">>)>>

NameRank(name) == CHOOSE i \in DOMAIN NameOrder : NameOrder[i] = name

\* (minute, name) tuples: a < b
TupleLess(a, b) == a[1] < b[1] \/ (a[1] = b[1] /\ NameRank(a[2]) < NameRank(b[2]))

\* sorted(s) for a list of (minute, name) tuples
Sorted(s) ==
    [r \in DOMAIN s |->
        s[CHOOSE i \in DOMAIN s :
              Cardinality({j \in DOMAIN s : TupleLess(s[j], s[i])
                                            \/ (~TupleLess(s[i], s[j]) /\ j < i)}) = r - 1]]

\* max(items, key=...) of a list that is not empty: the first of the greatest
FirstMax(keys) == Least({i \in DOMAIN keys : \A j \in DOMAIN keys : keys[j] <= keys[i]})

\* max(es, key=lambda e: _minute_val(e["t"]), default=None): a list of the
\* one event, the empty list for None
LastByMinute(es) ==
    IF es = <<>> THEN <<>> ELSE <<es[FirstMax([i \in DOMAIN es |-> _minute_val(es[i].val.t)])]>>

OfType(evs, types) == SelectSeq(evs, LAMBDA e : e.val.etype \in types)

\* (e["t"], e.get("note", default)) of the event of a list of one, Nil for None
Moment(es, default) ==
    IF es = <<>> THEN Nil ELSE <<es[1].val.t, DictGetOr(es[1], "note", default)>>

\* the three branches of the key moment heuristic
KeyMoment(evs, goals_for, goals_against) ==
    IF goals_for > goals_against
    THEN Moment(LastByMinute(OfType(evs, {"OUR_GOAL"})), <<"Our", " ", "decisive", " ", "goal">>)
    ELSE IF goals_against > goals_for
    THEN With(LastByMinute(OfType(evs, {"OPP_GOAL"})), LAMBDA last_opp :
         With(LastByMinute(OfType(evs, {"OUR_BIG_CHANCE_MISSED"})), LAMBDA last_us_miss :
            Moment(IF last_us_miss # <<>>
                      /\ (last_opp = <<>>
                          \/ _minute_val(last_us_miss[1].val.t) > _minute_val(last_opp[1].val.t))
                   THEN last_us_miss ELSE last_opp,
                   <<"Late", " ", "turning", " ", "point">>)))
    ELSE Moment(LastByMinute(OfType(evs, {"OUR_GOAL", "OPP_GOAL"})), <<"The", " ", "equaliser">>)

\* the MOTM heuristic
Motm(evs, hero, scorers_for) ==
    IF hero # <<>> THEN hero[FirstMax([i \in DOMAIN hero |-> hero[i].v])].k
    ELSE IF scorers_for # <<>> THEN Sorted(scorers_for)[1][2]
    ELSE With(SelectSeq(evs, LAMBDA e : StartsWith(e.val.etype, "OUR_")
                                             /\ Truthy(DictGet(e, "player"))), LAMBDA us :
         With(Ledger([i \in DOMAIN us |-> [k |-> us[i].val.player, n |-> 1]]), LAMBDA counter :
            IF counter = <<>> THEN <<"a", " ", "standout", " ", "Blue">>
            ELSE counter[FirstMax([i \in DOMAIN counter |-> counter[i].v])].k))

\* (minute, pl) of the events of one type, in the order of the timeline
Scorers(evs, etype) ==
    With(OfType(evs, {etype}), LAMBDA es :
        [i \in DOMAIN es |->
            <<_minute_val(OrElse(DictGet(es[i], "t"), <<"0">>)),
              OrElse(DictGet(es[i], "player"), <<"Unknown">>)>>])

\* an item the loop of compute_stats raises on: e["etype"] of something that
\* is no dictionary (TypeError) or holds no such key (KeyError), int() of a
\* minute that is no number (ValueError)
StatsRaisesOn(e) ==
    \/ ~e.dict
    \/ "etype" \notin DOMAIN e.val
    \/ ~MinuteOk(OrElse(DictGet(e, "t"), <<"0">>))

\* the event types the key moment heuristic takes e["t"] of
MomentTypes(goals_for, goals_against) ==
    IF goals_for > goals_against THEN {"OUR_GOAL"}
    ELSE IF goals_against > goals_for THEN {"OPP_GOAL", "OUR_BIG_CHANCE_MISSED"}
    ELSE {"OUR_GOAL", "OPP_GOAL"}

\* e["t"] of an event without the key (KeyError), _minute_val of None or ""
MomentRaises(evs, types) ==
    \E i \in DOMAIN evs :
        /\ evs[i].val.etype \in types
        /\ ("t" \notin DOMAIN evs[i].val \/ ~Truthy(evs[i].val.t))

compute_stats(mem) ==
    With(mem.timeline, LAMBDA evs :
        IF \E i \in DOMAIN evs : StatsRaisesOn(evs[i]) THEN Raised
        ELSE
        With(Len(OfType(evs, {"OUR_GOAL"})), LAMBDA goals_for :
        With(Len(OfType(evs, {"OPP_GOAL"})), LAMBDA goals_against :
        With(Scorers(evs, "OUR_GOAL"), LAMBDA scorers_for :
        With(Scorers(evs, "OPP_GOAL"), LAMBDA scorers_against :
            IF MomentRaises(evs, MomentTypes(goals_for, goals_against)) THEN Raised
            ELSE [scoreline |-> StrOf(goals_for) \o <<"-">> \o StrOf(goals_against),
                  goals_for |-> goals_for,
                  goals_against |-> goals_against,
                  our_scorers |-> [i \in DOMAIN scorers_for |-> Sorted(scorers_for)[i][2]],
                  opp_scorers |-> [i \in DOMAIN scorers_against |-> Sorted(scorers_against)[i][2]],
                  cards_us |-> Len(OfType(evs, {"YC_US", "RC_US"})),
                  cards_opp |-> Len(OfType(evs, {"YC_OPP", "RC_OPP"})),
                  misses_us |-> Len(OfType(evs, {"OUR_BIG_CHANCE_MISSED"})),
                  misses_opp |-> Len(OfType(evs, {"OPP_BIG_CHANCE_MISSED"})),
                  motm |-> Motm(evs, mem.hero_ledger, scorers_for),
                  key_moment |-> KeyMoment(evs, goals_for, goals_against),
                  ref_heat |-> mem.ref_heat])))))
\* ------------------------------------------------------------------------
\* Inputs
\* ------------------------------------------------------------------------

\* the two teams and their rosters, as parse_lineups hands them on
Team1 == <<"Birmingham", " ", "City">>

Team2 == <<"Chelsea", " ", "FC">>

Roster1 == <<(<<"Hogan">>), (<<"Dembele">>), (<<"Roberts">>)>>

Roster2 == <<(<<"Smith">>), (<<"Cole">>)>>

\* raw commentary lines with a goal keyword
GoalLines == {
    <<"1", "2", "'", " ", "Hogan", " ", "scores", " ", "for", " ", "Birmingham", " ", "City", "!">>,
    <<"4", "5", "+", "2", "'", " ", "Smith", " ", "equalises", ".">>,
    <<"3", "0", "'", " ", "Smith", " ", "scores", " ", "against", " ", "Birmingham", " ", "City", ".">>,
    <<"0", "5", "'", " ", "Hogan", " ", "scores", ".">>,
    <<"6", "0", "'", " ", "Smith", " ", "scores", " ", "past", " ", "Hogan", ".">>,
    <<"4", "5", "'", " ", "+", "1", " ", "Cole", " ", "scores", ".">>,
    <<"7", "0", "'", " ", "Goal", "!", " ", "Birmingham", " ", "City", " ", "1", ",", " ", "Chelsea", " ", "FC", " ", "2", ".", " ", "Cole", " ", "(", "Chelsea", " ", "FC", ")", " ", "right", " ", "footed", " ", "shot", ".">>}

\* raw commentary lines about a substitution
SubLines == {
    <<"Substitution", ",", " ", "Birmingham", " ", "City", ".", " ", "Roberts", " ", "replaces", " ", "Dembele", ".">>,
    <<"6", "7", "'", " ", "Substitution", ",", " ", "Birmingham", " ", "City", ".", " ", "Roberts", " ", "replaces", " ", "Dembele", ".">>,
    <<"Substitution", ",", " ", "Chelsea", " ", "FC", ".", " ", "Cole", " ", "replaces", " ", "Smith", ".">>,
    <<"Substitution", ",", " ", "Birmingham", " ", "City", ".", " ", "J", ".", " ", "Roberts", " ", "replaces", " ", "Dembele", ".">>,
    <<"8", "0", "'", " ", "Cole", " ", "comes", " ", "on", " ", "for", " ", "Smith", ".">>}

\* raw commentary lines about a card
CardLines == {
    <<"7", "5", "'", " ", "Second", " ", "yellow", " ", "card", " ", "to", " ", "Smith", " ", "(", "Chelsea", " ", "FC", ")", ".">>,
    <<"7", "8", "'", " ", "Hogan", " ", "is", " ", "shown", " ", "the", " ", "second", " ", "yellow", " ", "card", ".">>,
    <<"8", "2", "'", " ", "Smith", " ", "scores", " ", "after", " ", "a", " ", "second", " ", "yellow", " ", "card", " ", "to", " ", "Hogan", ".">>,
    <<"9", "0", "+", "3", "'", " ", "Second", " ", "yellow", " ", "card", " ", "to", " ", "Cole", " ", "in", " ", "added", " ", "time", ".">>,
    <<"8", "5", "'", " ", "Yellow", " ", "card", " ", "for", " ", "Cole", " ", "(", "Chelsea", " ", "FC", ")", ".">>,
    <<"8", "8", "'", " ", "Dembele", " ", "is", " ", "booked", ".">>,
    <<"8", "9", "'", " ", "Red", " ", "card", " ", "to", " ", "Smith", ".">>}

\* other raw commentary lines
PlayLines == {
    <<"1", "'", " ", "First", " ", "half", " ", "kicks", " ", "off", ".">>,
    <<"4", "5", "'", " ", "+", "5", " ", "Foul", " ", "by", " ", "Smith", ".">>,
    <<"Delay", " ", "in", " ", "match", ".">>,
    <<"Delay", " ", "over", ".">>,
    <<"Half", " ", "time", ".">>,
    <<"5", "5", "'", " ", "Corner", ",", " ", "Chelsea", " ", "FC", ".", " ", "Conceded", " ", "by", " ", "Hogan", ".">>,
    <<"Corner", ",", " ", "Birmingham", " ", "City", ".">>,
    <<"Offside", ",", " ", "Chelsea", " ", "FC", "!", " ", "Cole", " ", "is", " ", "caught", " ", "offside", ".">>,
    <<"HUGE", " ", "CHANCE", "!", " ", "Hogan", " ", "misses", ".">>,
    <<"COUNTER", "!", " ", "Play", " ", "goes", " ", "on", ".">>,
    <<"3", "3", "'", " ", "Great", " ", "save", " ", "by", " ", "Smith", ".">>,
    <<"4", "0", "'", " ", "Attempt", " ", "blocked", ".">>,
    <<"2", "0", "'", " ", "Foul", " ", "by", " ", "Dembelle", ".">>,
    <<"4", "1", "'", " ", "Roberts", " ", "wins", " ", "a", " ", "free", " ", "kick", ".">>,
    <<"5", "0", "'", " ", "The", " ", "ball", " ", "in", " ", "the", " ", "net", " ", "but", " ", "the", " ", "flag", " ", "is", " ", "up", ".">>,
    <<"He", " ", "said", " ", "\"", "unlucky", "\"", " ", "again", ".">>,
    <<"No", " ", "marker", " ", "here", ".">>,
    <<"Half", " ", "time", ".", " ", "He", " ", "said", " ", "\"", "unlucky", "\"", " ", "again", ".">>,
    <<"4", "6", "'", " ", "First", " ", "half", " ", "kicks", " ", "off", " ", "\"", "again", "\"", ".">>,
    <<"3", "4", "'", " ", "Great", " ", "save", " ", "by", " ", "Smith", ".", " ", "He", " ", "said", " ", "\"", "unlucky", "\"", " ", "\"", "again", "\"", ".">>}

RawLines == GoalLines \cup SubLines \cup CardLines \cup PlayLines

\* the lines a raw text is made of: front matter and commentary

\* lines of the front matter
FrontLines == {
    <<"Birmingham", " ", "City", ":", " ", "Hogan", ",", " ", "Dembele", ",", " ", "Roberts", ",", " ", "Hogan", ",", " ", "Dembele", ",", " ", "Roberts", ".">>,
    <<"Chelsea", " ", "FC", " ", "XI", ":", " ", "Smith", ",", " ", "Cole", ",", " ", "Smith", ";", " ", "Cole", " ", "-", " ", "Smith", ",", " ", "Cole", ",", " ", "Smith", ",", " ", "Cole">>,
    <<"Arsenal", ":", " ", "Smith", ",", " ", "Cole", ",", " ", "Hogan", ",", " ", "Dembele", ",", " ", "Roberts", ",", " ", "Smith">>,
    <<"Squad", ":", " ", "Hogan", ",", " ", "Dembele", ",", " ", "Roberts", ",", " ", "Smith">>,
    <<"Arsenal", ":", " ", "Smith", ",", " ", "Cole", ",", " ", "Hogan", ",", " ", "Dembele", ",", " ", "Roberts">>,
    <<"Chelsea", " ", "FC", " ", "Subs", ":", " ", "Cole", ",", " ", "Smith", ",", " ", "Cole", ",", " ", "Smith">>,
    <<"Chelsea", " ", "FC", " ", "Subs", ":", " ", "Cole", ",", " ", "Smith", ",", " ", "Cole", ",", " ", "Smith", ",", " ", "Cole", ",", " ", "Smith">>,
    <<"Subs", ":", " ", "Hogan", ",", " ", "Roberts", ",", " ", "Hogan", ",", " ", "Roberts", ",", " ", "Hogan", ",", " ", "Dembele">>,
    <<"Context", ":", " ", "Birmingham", " ", "City", " ", "host", " ", "Chelsea", " ", "FC", ".">>,
    <<>>}

\* lines of the commentary
MatchLines == {
    <<"1", "2", "'", " ", "Hogan", " ", "scores", " ", "for", " ", "Birmingham", " ", "City", "!">>,
    <<"[", "MIN", "=", "4", "5", "+", "2", "]", " ", "Smith", " ", "equalises", ".">>,
    <<"5", "6", ":", " ", "Corner", ",", " ", "Chelsea", " ", "FC", ".">>,
    <<"Delay", " ", "in", " ", "match", ".">>,
    <<"1", "'", " ", "Birmingham", " ", "City", ":", " ", "Hogan", ",", " ", "Dembele", ",", " ", "Roberts", ",", " ", "Hogan", ",", " ", "Dembele", ",", " ", "Roberts", ".">>,
    <<"[", "MIN", "=", "2", "]", " ", "Chelsea", " ", "FC", ":", " ", "Smith", ",", " ", "Cole", ",", " ", "Smith", ",", " ", "Cole", ",", " ", "Smith", ",", " ", "Cole">>,
    <<"3", "'", " ", "Chelsea", " ", "FC", " ", "Subs", ":", " ", "Cole", ",", " ", "Smith", ",", " ", "Cole", ",", " ", "Smith">>}

PoolLines == FrontLines \cup MatchLines

\* lines of a text handed to parse_events_unbiased as it stands, with minute tags and bare minute prefixes
TaggedLines == {
    <<"[", "MIN", "=", "4", "5", "]", " ", "+", "[", "MIN", "=", "5", "]", " ", "Foul", " ", "by", " ", "Smith", ".">>,
    <<"Foul", " ", "by", " ", "Smith", " ", "[", "MIN", "=", "4", "5", "]", "+", "[", "MIN", "=", "5", "]", ".">>,
    <<"[", "MIN", "=", "[", "MIN", "=", "4", "5", "]", "]", " ", "+", "[", "MIN", "=", "5", "]", " ", "Foul", " ", "by", " ", "Smith", ".">>,
    <<"4", "5", "'", " ", "Foul", " ", "by", " ", "Smith", " ", "[", "MIN", "=", "4", "6", "]", ".">>,
    <<"4", "5", "+", "2", "'", " ", "Foul", " ", "by", " ", "Smith", ".">>,
    <<"[", "MIN", "=", "1", "2", "]", " ", "Corner", ",", " ", "Chelsea", " ", "FC", " ", "[", "MIN", "=", "1", "3", "]", ".">>,
    <<"Foul", " ", "by", " ", "Smith", " ", "[", "MIN", "=", "3", "0", "]", " ", "[", "MIN", "=", "3", "1", "]", ".">>,
    <<"Delay", " ", "in", " ", "match", ".">>,
    <<"Foul", " ", "by", " ", "Smith", ".">>,
    <<"He", " ", "said", " ", "\"", "unlucky", "\"", " ", "again", ".">>}

\* ------------------------------------------------------------------------
\* The normaliser called on a pText
\* ------------------------------------------------------------------------
MaxNormLen == 4

NormAlphabet == {"0", "4", "+", "'", ":", SP, NL, "x"}

NormInputs == SeqsUpTo(NormAlphabet, MaxNormLen)

\* the normaliser not in use
NormIdle == nmIn = <<>> /\ nmOut = <<>> /\ nmPc = "idle"

\* the parser not in use
ParseIdle ==
    /\ commRaw = <<>> /\ ourTeam = <<>> /\ pText = <<>>
    /\ pAliases1 = <<>> /\ pAliases2 = <<>> /\ pLines = <<>> /\ pIdx = 0
    /\ curMin = <<>> /\ events = <<>> /\ evLine = <<>> /\ pPc = "idle"
    /\ run = 0 /\ prevEvents = <<>> /\ prevAliases = <<>>

\* build_memory and compute_stats not in use
MemIdle == mEvents = <<>> /\ memory = <<>> /\ stats = <<>> /\ mPc = "idle"

\* owns_event not in use
OwnerIdle ==
    oParts = <<>> /\ oAliases = <<>> /\ oIdx = 0 /\ oDet = NoPlayer /\ oPc = "idle"

\* run_from_text not in use
IngestIdle ==
    /\ rawText = <<>> /\ ctxLines = <<>> /\ lupLines = <<>> /\ commLines = <<>>
    /\ cand = <<>> /\ teamDict = <<>> /\ lastTeam = Nil /\ lIdx = 0
    /\ retried = FALSE /\ lineups = <<>> /\ iEvents = <<>> /\ iPc = "idle"

InitNorm ==
    /\ nmIn \in NormInputs
    /\ nmOut = <<>>
    /\ nmPc = "in"
    /\ ParseIdle
    /\ IngestIdle
    /\ OwnerIdle
    /\ MemIdle

CallNormalise ==
    /\ nmPc = "in"
    /\ nmOut' = normalise_minutes(nmIn)
    /\ nmPc' = "out"
    /\ UNCHANGED <<memVars, ownerVars, nmIn, parseVars, ingestVars>>

NextNorm == CallNormalise

SpecNorm == InitNorm /\ [][NextNorm]_vars

\* ------------------------------------------------------------------------
\* The classifier run on a commentary block
\* ------------------------------------------------------------------------
MaxLines == 2

MaxRuns == 2

\* the commentary blocks: one raw line or more
RawBlocks == SeqsUpTo(RawLines, MaxLines) \ {<<>>}

\* "\n".join(ls)
JoinLines(ls) == Concat([i \in 1..Len(ls) |-> IF i = 1 THEN ls[i] ELSE <<NL>> \o ls[i]])

\* a parser that starts from the minute the invocation before left behind
CarriedMinute(left) == left

\* cur_min: Optional[str] = None  at the head of an invocation, whatever an
\* earlier invocation left
InitialMinute(left) == <<>>

InitParse ==
    /\ NormIdle
    /\ IngestIdle
    /\ OwnerIdle
    /\ MemIdle
    /\ commRaw \in RawBlocks
    /\ ourTeam \in {Team1, Team2}
    /\ pText = <<>>
    /\ pAliases1 = <<>> /\ pAliases2 = <<>> /\ pLines = <<>> /\ pIdx = 0
    /\ curMin = <<>> /\ events = <<>> /\ evLine = <<>>
    /\ pPc = "raw"
    /\ run = 1 /\ prevEvents = <<>> /\ prevAliases = <<>>

\* comm_text_clean = clean("\n".join(comm_lines_raw))
Clean ==
    /\ pPc = "raw"
    /\ pText' = clean(JoinLines(commRaw))
    /\ pPc' = "clean"
    /\ UNCHANGED <<memVars, ownerVars, normVars, ingestVars, commRaw, ourTeam, pAliases1, pAliases2, pLines, pIdx,
                   curMin, events, evLine, run, prevEvents, prevAliases>>

\* parse_events_unbiased up to the loop
Begin ==
    /\ pPc = "clean"
    /\ pAliases1' \in build_team_aliases(Team1)
    /\ pAliases2' \in build_team_aliases(Team2)
    /\ pLines' = EventLines(pText)
    /\ curMin' = InitialMinute(curMin)
    /\ events' = <<>>
    /\ evLine' = <<>>
    /\ pIdx' = 1
    /\ pPc' = "loop"
    /\ UNCHANGED <<memVars, ownerVars, normVars, ingestVars, commRaw, ourTeam, pText, run, prevEvents, prevAliases>>

\* a list that takes its new events at the front
Prepended(evs, new) == new \o evs

\* events.append(...) for the events of one line, in the order they arise
Appended(evs, new) == evs \o new

\* one turn of the loop
Step ==
    /\ pPc = "loop"
    /\ pIdx <= Len(pLines)
    /\ \E r \in {ParseLine(pLines[pIdx], curMin, pAliases1, pAliases2, Roster1, Roster2,
                            InList(_norm(ourTeam), pAliases1))} :
           /\ curMin' = r.cur_min
           /\ events' = Appended(events, r.evs)
           /\ evLine' = evLine \o [k \in 1..Len(r.evs) |-> pIdx]
    /\ pIdx' = pIdx + 1
    /\ UNCHANGED <<memVars, ownerVars, normVars, ingestVars, commRaw, ourTeam, pText, pAliases1, pAliases2, pLines,
                   pPc, run, prevEvents, prevAliases>>

\* return events
Return ==
    /\ pPc = "loop"
    /\ pIdx > Len(pLines)
    /\ pPc' = "returned"
    /\ UNCHANGED <<memVars, ownerVars, normVars, ingestVars, commRaw, ourTeam, pText, pAliases1, pAliases2, pLines,
                   pIdx, curMin, events, evLine, run, prevEvents, prevAliases>>

\* the same text, teams, rosters and our team handed to the parser once more
Again ==
    /\ pPc = "returned"
    /\ run < MaxRuns
    /\ prevEvents' = events
    /\ prevAliases' = <<pAliases1, pAliases2>>
    /\ run' = run + 1
    /\ pPc' = "clean"
    /\ UNCHANGED <<memVars, ownerVars, normVars, ingestVars, commRaw, ourTeam, pText, pAliases1, pAliases2, pLines,
                   pIdx, curMin, events, evLine>>

NextParse == Clean \/ Begin \/ Step \/ Return

SpecParse == InitParse /\ [][NextParse]_vars

NextTwice == Clean \/ Begin \/ Step \/ Return \/ Again

SpecTwice == InitParse /\ [][NextTwice]_vars

\* ------------------------------------------------------------------------
\* The classifier called on a text as it stands
\* ------------------------------------------------------------------------
\* parse_events_unbiased(text, ...) takes any text: here one of tagged lines
\* that clean has not gone over
TaggedTexts == {JoinLines(ls) : ls \in SeqsUpTo(TaggedLines, MaxLines) \ {<<>>}}

InitDirect ==
    /\ NormIdle
    /\ IngestIdle
    /\ OwnerIdle
    /\ MemIdle
    /\ commRaw = <<>>
    /\ ourTeam \in {Team1, Team2}
    /\ pText \in TaggedTexts
    /\ pAliases1 = <<>> /\ pAliases2 = <<>> /\ pLines = <<>> /\ pIdx = 0
    /\ curMin = <<>> /\ events = <<>> /\ evLine = <<>>
    /\ pPc = "clean"
    /\ run = 1 /\ prevEvents = <<>> /\ prevAliases = <<>>

NextDirect == Begin \/ Step \/ Return

SpecDirect == InitDirect /\ [][NextDirect]_vars

\* ------------------------------------------------------------------------
\* run_from_text on a raw text: sections, lineups, commentary
\* ------------------------------------------------------------------------
MaxRawLines == 3

\* the raw texts: one line or more, each of the front matter or the commentary
RawTexts == {JoinLines(ls) : ls \in SeqsUpTo(PoolLines, MaxRawLines) \ {<<>>}}

NoTeams == [raised |-> FALSE, team1 |-> <<>>, roster1 |-> <<>>, team2 |-> <<>>, roster2 |-> <<>>]

InitIngest ==
    /\ NormIdle
    /\ ParseIdle
    /\ OwnerIdle
    /\ MemIdle
    /\ rawText \in RawTexts
    /\ ctxLines = <<>> /\ lupLines = <<>> /\ commLines = <<>>
    /\ cand = <<>> /\ teamDict = <<>> /\ lastTeam = Nil /\ lIdx = 0
    /\ retried = FALSE
    /\ lineups = NoTeams
    /\ iEvents = <<>>
    /\ iPc = "raw"

\* ctx_lines, lineup_lines, comm_lines_raw = split_sections(raw), and
\* parse_lineups(lineup_lines) up to its loop
SplitSections ==
    /\ iPc = "raw"
    /\ \E r \in {split_sections(rawText)} :
           /\ ctxLines' = r.ctx
           /\ lupLines' = r.lups
           /\ commLines' = r.comm
           /\ cand' = r.lups
    /\ teamDict' = <<>>
    /\ lastTeam' = Nil
    /\ lIdx' = 1
    /\ iPc' = "lineups"
    /\ UNCHANGED <<memVars, ownerVars, normVars, parseVars, rawText, retried, lineups, iEvents>>

\* one turn of the loop of parse_lineups
LineupLoop ==
    /\ iPc = "lineups"
    /\ lIdx <= Len(cand)
    /\ \E st \in {LineupLine(cand[lIdx], [teams |-> teamDict, last |-> lastTeam])} :
           /\ teamDict' = st.teams
           /\ lastTeam' = st.last
    /\ lIdx' = lIdx + 1
    /\ UNCHANGED <<memVars, ownerVars, normVars, parseVars, rawText, ctxLines, lupLines, commLines, cand,
                   retried, lineups, iEvents, iPc>>

\* parse_lineups returns t1, dedup(teams[t1]), t2, dedup(teams[t2])
LineupsReturn ==
    /\ iPc = "lineups"
    /\ lIdx > Len(cand)
    /\ \E r \in {LineupResult(teamDict)} :
           /\ ~r.raised
           /\ lineups' = r
    /\ iPc' = "teams"
    /\ UNCHANGED <<memVars, ownerVars, normVars, parseVars, rawText, ctxLines, lupLines, commLines, cand,
                   teamDict, lastTeam, lIdx, retried, iEvents>>

\* parse_lineups(lineup_lines) raises: the except branch looks for lineups in
\* the commentary, raises again if there are none and calls parse_lineups on
\* them otherwise
Fallback ==
    /\ iPc = "lineups"
    /\ lIdx > Len(cand)
    /\ LineupResult(teamDict).raised
    /\ ~retried
    /\ retried' = TRUE
    /\ \E found \in {extract_lineups_from_commentary(commLines)} :
           IF found = <<>>
           THEN /\ iPc' = "failed"
                /\ UNCHANGED <<cand, teamDict, lastTeam, lIdx>>
           ELSE /\ cand' = found
                /\ teamDict' = <<>>
                /\ lastTeam' = Nil
                /\ lIdx' = 1
                /\ iPc' = "lineups"
    /\ UNCHANGED <<memVars, ownerVars, normVars, parseVars, rawText, ctxLines, lupLines, commLines,
                   lineups, iEvents>>

\* parse_lineups(cand) raises inside the except branch
Fail ==
    /\ iPc = "lineups"
    /\ lIdx > Len(cand)
    /\ LineupResult(teamDict).raised
    /\ retried
    /\ iPc' = "failed"
    /\ UNCHANGED <<memVars, ownerVars, normVars, parseVars, rawText, ctxLines, lupLines, commLines, cand,
                   teamDict, lastTeam, lIdx, retried, lineups, iEvents>>

\* our_team = args.our or team1; the commentary cleaned and parsed
ParseCommentary ==
    /\ iPc = "teams"
    /\ \E our \in {lineups.team1, lineups.team2} :
       \E a1 \in build_team_aliases(lineups.team1) :
       \E a2 \in build_team_aliases(lineups.team2) :
           iEvents' = parse_events_unbiased(clean(JoinLines(commLines)), a1, a2,
                                            lineups.roster1, lineups.roster2, our)
    /\ iPc' = "parsed"
    /\ UNCHANGED <<memVars, ownerVars, normVars, parseVars, rawText, ctxLines, lupLines, commLines, cand,
                   teamDict, lastTeam, lIdx, retried, lineups>>

NextIngest ==
    SplitSections \/ LineupLoop \/ LineupsReturn \/ Fallback \/ Fail \/ ParseCommentary

SpecIngest == InitIngest /\ [][NextIngest]_vars

\* ------------------------------------------------------------------------
\* owns_event and detect_player on a line with a parenthesis
\* ------------------------------------------------------------------------
\* what stands before the name
OwnerBefore == {<<>>, <<"Foul", SP, "by", SP>>}

\* the name before the parenthesis: capitalised, in capitals, or close to a
\* name of a roster
OwnerNames == {<<"Cole">>, <<"Hogan">>, <<"COLE">>, <<"Dembelle">>, <<"Rober">>}

\* the text in the parenthesis
OwnerTeams == {Team1, Team2, <<"Chelsea">>}

\* what follows the parenthesis: nothing, the other team or a player
OwnerAfter == {
    <<".">>,
    <<SP, "on", SP, "the", SP, "Birmingham", SP, "City", SP, "defender", ".">>,
    <<SP, "on", SP, "the", SP, "Chelsea", SP, "defender", ".">>,
    <<SP, "on", SP, "Smith", ".">>,
    <<SP, "on", SP, "Hogan", ".">>}

\* the line made of the parts:  <before><name> (<team>)<after>
OwnerLine(parts) ==
    parts.before \o parts.name \o <<SP, "(">> \o parts.team \o <<")">> \o parts.after

InitOwner ==
    /\ NormIdle
    /\ ParseIdle
    /\ IngestIdle
    /\ MemIdle
    /\ oParts \in [before : OwnerBefore, name : OwnerNames, team : OwnerTeams,
                   after : OwnerAfter]
    /\ oAliases \in build_team_aliases(Team1) \X build_team_aliases(Team2)
    /\ oIdx = 0
    /\ oDet = NoPlayer
    /\ oPc = "in"

\* idx = owns_event(line, aliases1, aliases2, roster1, roster2)
CallOwns ==
    /\ oPc = "in"
    /\ oIdx' = owns_event(OwnerLine(oParts), oAliases[1], oAliases[2], Roster1, Roster2)
    /\ oPc' = "out"
    /\ UNCHANGED <<memVars, normVars, parseVars, ingestVars, oParts, oAliases, oDet>>

\* pl, idx = detect_player(line, roster1, roster2)
CallDetect ==
    /\ oPc = "in"
    /\ oDet' = detect_player(OwnerLine(oParts), Roster1, Roster2)
    /\ oPc' = "det"
    /\ UNCHANGED <<memVars, normVars, parseVars, ingestVars, oParts, oAliases, oIdx>>

NextOwner == CallOwns \/ CallDetect

SpecOwner == InitOwner /\ [][NextOwner]_vars

\* ------------------------------------------------------------------------
\* build_memory and compute_stats on a list of events
\* ------------------------------------------------------------------------
MaxEvents == 3

\* a dictionary without the key etype, and an item that is no dictionary
NoType == [dict |-> TRUE, val |-> [t |-> <<"1", "3">>, note |-> <<"Play", " ", "goes", " ", "on", ".">>]]

NoDict == [dict |-> FALSE, val |-> [str |-> <<"x">>]]

Item(minute, etype, player, note) == [dict |-> TRUE, val |-> Ev(minute, etype, player, note)]

\* the items a list of events is made of
MemItems ==
    {Item(<<"1", "2">>, "OUR_GOAL", <<"Hogan">>, <<"Hogan", " ", "scores", ".">>),
     Item(<<"1", "2">>, "OUR_GOAL", <<"Cole">>, <<"Goal", " ", "after", " ", "VAR", ".">>),
     Item(<<"4", "5", "+", "2">>, "OPP_GOAL", Nil, <<"Goal", "!">>),
     Item(<<"3", "0">>, "OPP_GOAL", <<"Smith">>, <<"Smith", " ", "scores", ".">>),
     Item(<<"8", "0">>, "OUR_BIG_CHANCE_MISSED", <<"Hogan">>, <<"Hogan", " ", "deflected", ".">>),
     Item(<<"2", "0">>, "OPP_BIG_CHANCE_MISSED", Nil, <<"x">>),
     Item(<<"3", "3">>, "YC_US", <<"Hogan">>, <<"x">>),
     Item(<<"3", "4">>, "YC_OPP", <<"Smith">>, <<"x">>),
     Item(<<"5", "5">>, "CORNER_OPP", Nil, <<"Corner", ".">>),
     Item(<<"5", "6">>, "DISALLOWED_GOAL_US", Nil, <<"x">>),
     Item(<<"3", "4">>, "QUOTE", Nil, <<"unlucky">>),
     NoType,
     NoDict}

InitMemory ==
    /\ NormIdle
    /\ ParseIdle
    /\ IngestIdle
    /\ OwnerIdle
    /\ mEvents \in SeqsUpTo(MemItems, MaxEvents)
    /\ memory = <<>>
    /\ stats = <<>>
    /\ mPc = "events"

\* mem = build_memory(match_id, our_team, team1, roster1, team2, roster2, events, context_lines)
BuildMemory ==
    /\ mPc = "events"
    /\ memory' = build_memory(<<"x">>, Team1, Team1, Roster1, Team2, Roster2, mEvents, <<>>)
    /\ mPc' = IF HasRaised(memory') THEN "raised" ELSE "built"
    /\ UNCHANGED <<normVars, parseVars, ingestVars, ownerVars, mEvents, stats>>

\* stats = compute_stats(memory)
ComputeStats ==
    /\ mPc = "built"
    /\ stats' = compute_stats(memory)
    /\ mPc' = IF HasRaised(stats') THEN "raised" ELSE "stats"
    /\ UNCHANGED <<normVars, parseVars, ingestVars, ownerVars, mEvents, memory>>

NextMemory == BuildMemory \/ ComputeStats

SpecMemory == InitMemory /\ [][NextMemory]_vars
\* ------------------------------------------------------------------------
\* Claims about the normaliser
\* ------------------------------------------------------------------------
\* a raw minute marker N' or N+M' at the start of s: its length and groups
MarkerAtStart(s) ==
    LET n == DigitRun(s, 1)
        hasPlus == At(s, n + 1) = "+"
        m == IF hasPlus THEN DigitRun(s, n + 2) ELSE 0
        q == IF hasPlus THEN n + 2 + m ELSE n + 1
    IN  IF n \in 1..3 /\ (hasPlus => m \in 1..2) /\ At(s, q) \in {"'", RSQUO}
        THEN [len |-> q, base |-> Slice(s, 1, n),
              extra |-> IF hasPlus THEN Slice(s, n + 2, n + 1 + m) ELSE <<>>]
        ELSE [len |-> 0, base |-> <<>>, extra |-> <<>>]

\* C1: a line that starts with N' or N+M' comes out of normalise_minutes
\* starting with exactly [MIN=N] or [MIN=N+M], and everything after the
\* marker (other digits, punctuation, casing) is as it was.
C1_MarkerBecomesOneTagRestUnchanged ==
    (nmPc = "out" /\ NL \notin Range(nmIn) /\ MarkerAtStart(nmIn).len > 0) =>
        LET mk == MarkerAtStart(nmIn)
        IN  nmOut = <<"[", "MIN", "=">> \o mk.base
                      \o (IF mk.extra # <<>> THEN <<"+">> \o mk.extra ELSE <<>>)
                      \o <<"]">> \o Slice(nmIn, mk.len + 1, Len(nmIn))

\* ------------------------------------------------------------------------
\* Claims about the classifier
\* ------------------------------------------------------------------------
\* line i of the commentary has been through the loop, and the lines of the
\* cleaned text are the raw lines one for one
Seen(i) ==
    /\ pPc \in {"loop", "returned"}
    /\ i \in 1..Len(commRaw)
    /\ Len(pLines) = Len(commRaw)
    /\ pIdx > i

\* the events that came from line i
EventsOfLine(i) == {j \in DOMAIN events : evLine[j] = i}

\* the events of line i other than its quotes
Classified(i) == {j \in EventsOfLine(i) : events[j].etype # "QUOTE"}

\* line i has a minute: its own marker, or one carried from a line before
HasMinute(i) == \E j \in 1..i : MarkerAtStart(commRaw[j]).len > 0

RECURSIVE DropZeros(_)
DropZeros(ds) == IF Len(ds) > 1 /\ ds[1] = "0" THEN DropZeros(Tail(ds)) ELSE ds

\* N or N+M as the marker of a line writes it
MinuteAsWritten(mk) ==
    mk.base \o (IF mk.extra # <<>> THEN <<"+">> \o mk.extra ELSE <<>>)

\* the same with the leading zeros of N dropped
MinuteCanonical(mk) ==
    DropZeros(mk.base) \o (IF mk.extra # <<>> THEN <<"+">> \o mk.extra ELSE <<>>)

\* the names of a roster that a line holds
NamesIn(line, roster) == {k \in DOMAIN roster : Contains(_norm(line), _norm(roster[k]))}

FirstOf(S) == CHOOSE k \in S : \A m \in S : k <= m

\* a rule that comes before the goal rule takes the line: kick-off, half
\* time, full time, delay, added time, substitution
TakenBeforeGoal(line) ==
    LET lwl == Slice(line, LabelLen(line) + 1, Len(line))
        low == _norm(lwl)
    IN  \/ HasKeyword(low, "ko") \/ HasKeyword(low, "ht") \/ HasKeyword(low, "ft")
        \/ Contains(low, <<"delay", SP, "in", SP, "match">>)
        \/ Contains(low, <<"delay", SP, "over">>)
        \/ Contains(low, <<"added", SP, "time">>)
        \/ Contains(low, <<"has", SP, "announced">>)
        \/ SUB_PAT_1(lwl).ok \/ SUB_PAT_2(lwl, 1).ok

\* a rule that comes before the red-card rule takes the line
TakenBeforeCard(line) ==
    \/ TakenBeforeGoal(line)
    \/ HasKeyword(_norm(Slice(line, LabelLen(line) + 1, Len(line))), "goal")

GoalType(k) == IF k = 1 THEN "OUR_GOAL" ELSE "OPP_GOAL"

RosterOf(k) == IF k = 1 THEN Roster1 ELSE Roster2

\* C2: two invocations on the same text, teams, rosters and our team return
\* the same event list, position by position, whatever order the alias lists
\* came in.
C2_SameInputSameEvents ==
    (pPc = "returned" /\ run > 1) => events = prevEvents

\* a second invocation has returned events, having worked with the aliases
\* of a team in another order than the first
C2_SecondRunReturned ==
    /\ pPc = "returned" /\ run = 2
    /\ Len(events) >= 2
    /\ prevAliases # <<pAliases1, pAliases2>>

GoalByRoster(i) ==
    LET raw == commRaw[i]
        mk == MarkerAtStart(raw)
    IN  /\ mk.len > 0
        /\ "+" \notin Range(Slice(raw, mk.len + 1, Len(raw)))
        /\ HasKeyword(_norm(raw), "goal")
        /\ ~TakenBeforeGoal(pLines[i])
        /\ "(" \notin Range(raw)
        /\ \A a \in AliasSet(Team1) \cup AliasSet(Team2) : ~Contains(_norm(raw), a)
        /\ NamesIn(raw, Roster1) \cup NamesIn(raw, Roster2) # {}

SubShape(line, team) ==
    LET head == <<"Substitution", ",", SP>> \o team \o <<".", SP>>
        h == Len(head)
        ks == {k \in (h + 3)..(Len(line) - 3) :
                 /\ line[k] = "replaces" /\ line[k - 1] = SP /\ line[k + 1] = SP}
        k == FirstOf(ks)
    IN  IF Len(line) > h /\ Slice(line, 1, h) = head /\ ks # {} /\ line[Len(line)] = "."
        THEN <<Slice(line, h + 1, k - 2), Slice(line, k + 2, Len(line) - 1)>>
        ELSE <<>>

\* C6: a line  Substitution, <Team>. <On> replaces <Off>.  with our team as
\* <Team>, at a point where a minute is known, gives a SUB_US event with
\* player <On> and a note that holds both <On> and <Off>.
C6_SubstitutionOfOurTeam ==
    \A i \in 1..Len(commRaw) :
      (Seen(i) /\ HasMinute(i) /\ SubShape(commRaw[i], ourTeam) # <<>>) =>
        LET sh == SubShape(commRaw[i], ourTeam)
        IN  \E j \in EventsOfLine(i) :
              /\ events[j].etype = "SUB_US"
              /\ events[j].player = sh[1]
              /\ Contains(_norm(events[j].note), _norm(sh[1]))
              /\ Contains(_norm(events[j].note), _norm(sh[2]))

SecondYellow(i) ==
    Contains(_norm(pLines[i]), <<"second", SP, "yellow", SP, "card">>)

EventTypes ==
    {"OUR_GOAL", "OPP_GOAL", "SUB_US", "SUB_OPP", "YC_US", "YC_OPP", "RC_US", "RC_OPP",
     "CORNER_US", "CORNER_OPP", "OFFSIDE_US", "OFFSIDE_OPP",
     "DISALLOWED_GOAL_US", "DISALLOWED_GOAL_OPP", "SAVE_US", "SAVE_OPP",
     "BLOCK_US", "BLOCK_OPP", "FOUL_US", "FOUL_OPP", "FREEKICK_US", "FREEKICK_OPP",
     "OUR_BIG_CHANCE_MISSED", "OPP_BIG_CHANCE_MISSED",
     "KICK_OFF", "DELAY", "RESUME", "ADDED_TIME", "QUOTE", "LABEL"}

\* C9: every event of the list has a type of the closed vocabulary; no base
\* type (SAVE, MISS, GOAL, ...) is left without its suffix.
C9_TypesInVocabulary ==
    \A j \in DOMAIN events : events[j].etype \in EventTypes

\* the list holds events of the attempt rule for both sides
C9_AttemptEventsSeen ==
    /\ pPc = "returned"
    /\ \E j \in DOMAIN events : events[j].etype \in {"SAVE_OPP", "BLOCK_OPP"}
    /\ \E j \in DOMAIN events : events[j].etype \in {"OUR_BIG_CHANCE_MISSED", "FREEKICK_US"}

\* N or N+M: digits, at most one '+', digits on both sides of it
IsMinuteString(t) ==
    LET n == DigitRun(t, 1)
    IN  /\ n >= 1
        /\ \/ Len(t) = n
           \/ /\ Len(t) > n + 1 /\ t[n + 1] = "+"
              /\ DigitRun(t, n + 2) = Len(t) - n - 1

\* C10: every event carries a non-empty minute of the form N or N+M, also
\* on a line that inherits its minute and for a minute taken from nested or
\* split tags.
C10_MinuteIsNOrNPlusM ==
    \A j \in DOMAIN events : IsMinuteString(events[j].t)

\* an event on a line without a marker has inherited a minute that came from
\* a split tag
C10_InheritedSplitMinuteSeen ==
    \E j \in DOMAIN events :
      /\ MarkerAtStart(commRaw[evLine[j]]).len = 0
      /\ "+" \in Range(events[j].t)
      /\ \E i \in 1..(evLine[j] - 1) : MarkerAtStart(commRaw[i]).extra = <<>>
                                        /\ MarkerAtStart(commRaw[i]).len > 0

\* ------------------------------------------------------------------------
\* Claims about the section splitter and the lineup resolver
\* ------------------------------------------------------------------------
\* parse_lineups has returned its four values
LineupsReturned == iPc \in {"teams", "parsed"}

\* the team names the lines handed to parse_lineups put into its dict
TeamsNamed == {teamDict[i].team : i \in DOMAIN teamDict}

\* C3: whenever parse_lineups returns normally, the lines it was given name
\* exactly two distinct teams, and these are the two it returns; lines that
\* name one team or three never give a normal result.
C3_TwoTeamsOrError ==
    LineupsReturned =>
        /\ Cardinality(TeamsNamed) = 2
        /\ lineups.team1 # lineups.team2
        /\ TeamsNamed = {lineups.team1, lineups.team2}

\* the lines of the raw text, stripped on the right
LinesOfRaw == RawLinesOf(rawText)

\* the lines before the first line that starts with a minute
FrontMatter ==
    LET first == FirstMinute(LinesOfRaw)
    IN  SubSeq(LinesOfRaw, 1, IF first = 0 THEN Len(LinesOfRaw) ELSE first - 1)

\* a line  Name: a, b, c, d : a name, a ':', and after it three commas with
\* four names between them
FourNames(ln) ==
    LET s == Strip(ln)
        c == Least({k \in 1..Len(s) : s[k] = ":"})
        rhs == Slice(s, c + 1, Len(s))
    IN  /\ c > 1
        /\ \A k \in 1..(c - 1) : s[k] \in NameClass
        /\ Commas(rhs) = 3
        /\ Len(_norm_names(rhs)) = 4

\* C4: a line  Name: a, b, c, d  of the front matter, with exactly four
\* names between commas, is in the context list and not in the lineup list.
C4_FourNamesLineIsContext ==
    iPc # "raw" =>
        \A i \in DOMAIN FrontMatter :
            FourNames(FrontMatter[i]) =>
                /\ InList(Strip(FrontMatter[i]), ctxLines)
                /\ ~InList(Strip(FrontMatter[i]), lupLines)

\* the splitter has put a four-name line into the context, next to a line
\* it took for a lineup
C4_FourNamesLineSeen ==
    /\ iPc # "raw"
    /\ lupLines # <<>>
    /\ \E i \in DOMAIN FrontMatter :
         /\ FourNames(FrontMatter[i])
         /\ InList(Strip(FrontMatter[i]), ctxLines)

\* no line of the raw text begins with a raw minute marker or a minute tag
NoMinuteLine == \A i \in DOMAIN LinesOfRaw : ~MIN_LINE_OR_TAG(LinesOfRaw[i])

\* the lines of the raw text that are not blank
NonBlankLines == SelectSeq(LinesOfRaw, NonBlank)

\* C7: for a raw text none of whose lines begins with a raw minute marker or
\* a minute tag, the commentary block is empty, every line that is not blank
\* is front matter (context or lineup), and the classifier run on that
\* commentary returns no event.
C7_NoMinuteNoCommentaryNoEvents ==
    (iPc # "raw" /\ NoMinuteLine) =>
        /\ commLines = <<>>
        /\ Len(ctxLines) + Len(lupLines) = Len(NonBlankLines)
        /\ iPc = "parsed" => iEvents = <<>>

\* the classifier has run on the commentary of a text without a minute, a
\* text with a line of context and two lineups
C7_NoMinuteTextParsed ==
    /\ iPc = "parsed"
    /\ NoMinuteLine
    /\ ctxLines # <<>>
    /\ iEvents = <<>>

\* ------------------------------------------------------------------------
\* Claims about ownership, order and minutes
\* ------------------------------------------------------------------------
\* the index of our team
OurIndex == IF ourTeam = Team1 THEN 1 ELSE 2

\* the goal and card types on our side and on the other side
OurGoalCard == {"OUR_GOAL", "RC_US", "YC_US"}

OppGoalCard == {"OPP_GOAL", "RC_OPP", "YC_OPP"}

\* the line an event came from
LineOfEvent(j) == pLines[evLine[j]]

\* the team that owns the line of event j by parenthesis, alias or roster;
\* 0 if none does
OwnerOfEvent(j) == owns_event(LineOfEvent(j), pAliases1, pAliases2, Roster1, Roster2)

\* C11: a goal or card event whose line is owned by team k carries the
\* label of our side (OUR_GOAL, RC_US, YC_US) if and only if k is the index
\* of our team, for our team 1 and for our team 2 alike.
C11_LabelRelativeToOurTeam ==
    \A j \in DOMAIN events :
        (events[j].etype \in OurGoalCard \cup OppGoalCard /\ OwnerOfEvent(j) # 0) =>
            (events[j].etype \in OurGoalCard <=> OwnerOfEvent(j) = OurIndex)

\* the teams that parse_lineups finds in a list of lines
TeamsIn(lines) == LineupsFrom(lines, 1, [teams |-> <<>>, last |-> Nil]).teams

\* fewer than two teams in the lineup lines of the front matter, and fewer
\* than two in the lineup candidates of the commentary
TooFewTeams ==
    /\ Len(TeamsIn(lupLines)) < 2
    /\ Len(TeamsIn(extract_lineups_from_commentary(commLines))) < 2

\* C12: when fewer than two teams can be identified from the lineup lines of
\* the front matter and also from the candidates of the commentary, the run
\* never gets its teams, the classifier is never run and there are no events.
C12_TooFewTeamsNoTimeline ==
    (iPc # "raw" /\ TooFewTeams) =>
        /\ iPc \in {"lineups", "failed"}
        /\ lineups = NoTeams
        /\ iEvents = <<>>

\* the run has failed after the fallback found candidates in a commentary
\* that the classifier was never run on
C12_FailedAfterFallback ==
    /\ iPc = "failed"
    /\ retried
    /\ cand # <<>>
    /\ commLines # <<>>
    /\ TooFewTeams

\* C13: events are only ever appended: a step leaves every event that was in
\* the list where it was and as it was, and the events of the list stand in
\* the order of the lines they came from.
C13_EventsOnlyAppended ==
    [][/\ Len(events') >= Len(events)
       /\ SubSeq(events', 1, Len(events)) = events
       /\ SubSeq(evLine', 1, Len(evLine)) = evLine
       /\ \A a, b \in DOMAIN evLine' : a < b => evLine'[a] <= evLine'[b]]_vars

\* the list holds two different events, the first of an earlier line than
\* the second
C13_EventsOfTwoLines ==
    /\ pPc = "returned"
    /\ Len(events) >= 2
    /\ evLine[1] < evLine[Len(evLine)]
    /\ events[1] # events[Len(events)]

\* the teams of which a text holds an alias
TeamsMentioned(text) ==
    {k \in {1, 2} : \E a \in AliasSet(IF k = 1 THEN Team1 ELSE Team2) :
                        Contains(_norm(text), a)}

\* C14: for a line  Name (Team)  whose parenthesis holds an alias of team i
\* and not of the other team, and whose text after the parenthesis holds an
\* alias of the other team, owns_event returns i.
C14_ParenthesisOutranksAlias ==
    \A i \in {1, 2} :
        (/\ oPc = "out"
         /\ TeamsMentioned(oParts.team) = {i}
         /\ TeamsMentioned(oParts.after) = {3 - i}) => oIdx = i

\* ------------------------------------------------------------------------
\* Claims about the thresholds of the section splitter
\* ------------------------------------------------------------------------
\* rhs.count(",") + 1: the entries of a list, one more than its commas
Entries(rhs) == Commas(rhs) + 1

\* the place of the first ':' of a stripped line, 0 if it has none
ColonOf(s) == Least({k \in 1..Len(s) : s[k] = ":"})

\* a line  Name: list : a name without a keyword of substitutes, and a ':'
NameListLine(ln) ==
    LET s == Strip(ln)
    IN  /\ ColonOf(s) > 1
        /\ \A k \in 1..(ColonOf(s) - 1) :
               s[k] \in NameClass /\ Lower(s[k]) \notin SubsKeywords

\* the entries of the list of such a line
ListEntries(ln) == Entries(Slice(Strip(ln), ColonOf(Strip(ln)) + 1, Len(Strip(ln))))

\* a line  Name: e1, ..., en
NameList(ln, n) == NameListLine(ln) /\ ListEntries(ln) = n

\* C15: a line  Name: list  of the front matter is a lineup line when its
\* list has five entries or more, and a line of context when it has fewer;
\* a list of exactly five names makes a lineup line.
C15_FiveEntriesStartLineup ==
    iPc # "raw" =>
        \A i \in DOMAIN FrontMatter :
            NameListLine(FrontMatter[i]) =>
                IF ListEntries(FrontMatter[i]) >= 5
                THEN InList(Strip(FrontMatter[i]), lupLines)
                ELSE /\ InList(Strip(FrontMatter[i]), ctxLines)
                     /\ ~InList(Strip(FrontMatter[i]), lupLines)

\* a line  Name: list  whose name is not the word Context
NamedListLine(ln) == NameListLine(ln) /\ Lower(Strip(ln)[1]) # "context"

\* C15, as the splitter has it: it counts commas, and takes a line
\* Name: list  of the front matter for a lineup line when the list has five
\* commas or more (six entries), for context when it has fewer; a list of
\* exactly five names makes a line of context.
C15_FiveCommasStartLineup ==
    iPc # "raw" =>
        \A i \in DOMAIN FrontMatter :
            NamedListLine(FrontMatter[i]) =>
                IF ListEntries(FrontMatter[i]) - 1 >= RosterCommas
                THEN InList(Strip(FrontMatter[i]), lupLines)
                ELSE /\ InList(Strip(FrontMatter[i]), ctxLines)
                     /\ ~InList(Strip(FrontMatter[i]), lupLines)

\* the splitter has put a line of five names into the context and a line of
\* six into the lineups
C15_FiveAndSixNamesSplit ==
    /\ iPc # "raw"
    /\ \E i, j \in DOMAIN FrontMatter :
         /\ NamedListLine(FrontMatter[i]) /\ NameList(FrontMatter[i], 5)
         /\ InList(Strip(FrontMatter[i]), ctxLines)
         /\ NamedListLine(FrontMatter[j]) /\ NameList(FrontMatter[j], 6)
         /\ InList(Strip(FrontMatter[j]), lupLines)

\* a line  Name Subs: list  and a line  Subs: list
SubsLine(ln) == SUBS_INLINE(Strip(ln))
BareSubsLine(ln) == SUBS_BARE(Strip(ln))

\* the team of a line that starts or extends a lineup by the thresholds of
\* five and three entries, Nil for another line
LineupTeam(ln) ==
    IF SubsLine(ln).ok
    THEN IF Entries(SubsLine(ln).rhs) >= 3 THEN Strip(SubsLine(ln).team) ELSE Nil
    ELSE IF NameListLine(ln) /\ ListEntries(ln) >= 5
    THEN Strip(TEAM_LINE(Strip(ln)).team)
    ELSE Nil

\* the lineup team seen last before line i of the front matter, Nil if none
TeamSeenBefore(i) ==
    LET js == {j \in 1..(i - 1) : LineupTeam(FrontMatter[j]) # Nil}
    IN  IF js = {} THEN Nil ELSE LineupTeam(FrontMatter[Greatest(js)])

\* C16: a line  Name Subs: list  of the front matter is a lineup line when
\* its list has three entries or more and a line of context otherwise; a
\* bare line  Subs: list  with three entries or more goes to the lineup lines
\* as  Team Subs: list  under the lineup team seen last.
C16_ThreeEntriesSubsLineup ==
    iPc # "raw" =>
        \A i \in DOMAIN FrontMatter :
            /\ SubsLine(FrontMatter[i]).ok =>
                  IF Entries(SubsLine(FrontMatter[i]).rhs) >= 3
                  THEN InList(Strip(FrontMatter[i]), lupLines)
                  ELSE InList(Strip(FrontMatter[i]), ctxLines)
            /\ (/\ BareSubsLine(FrontMatter[i]).ok
                /\ Entries(BareSubsLine(FrontMatter[i]).rhs) >= 3
                /\ TeamSeenBefore(i) # Nil) =>
                  InList(TeamSeenBefore(i) \o <<SP, "Subs", ":", SP>>
                             \o Strip(BareSubsLine(FrontMatter[i]).rhs), lupLines)

\* ------------------------------------------------------------------------
\* Claims about the names of the teams
\* ------------------------------------------------------------------------
\* the canonical name of a team: what the alias table has for its
\* lower-case form, the name itself if the table has nothing
Canonical(name) == Get(TEAM_ALIASES, _norm(Strip(name)), Strip(name))

\* C19: the lineup resolver maps a team name through the alias table, case
\* ignored, before it accumulates: every team of its dict stands under its
\* canonical name, and no two teams of the dict are aliases of one club.
C19_TeamsUnderCanonicalName ==
    iPc \in {"lineups", "teams", "parsed"} =>
        /\ \A i \in DOMAIN teamDict : teamDict[i].team = Canonical(teamDict[i].team)
        /\ \A i, j \in DOMAIN teamDict :
               Canonical(teamDict[i].team) = Canonical(teamDict[j].team) => i = j

\* ------------------------------------------------------------------------
\* Claims about the lineups found in the commentary
\* ------------------------------------------------------------------------
\* the lines without their leading minute tag or marker
Cores(lines) == [i \in 1..Len(lines) |-> Core(lines[i])]

\* how many of the first k lines of the commentary the extractor takes for
\* lineup lines, and how many of their cores the front matter does
TakenByExtractor(k) == Len(extract_lineups_from_commentary(SubSeq(commLines, 1, k)))
TakenByFrontMatter(k) == Len(_extract_frontmatter(Cores(SubSeq(commLines, 1, k))).lups)

\* C20: extract_lineups_from_commentary takes a line of the commentary for a
\* lineup line exactly when _extract_frontmatter takes the line without its
\* leading minute for one, the lines before it being the same for both.
C20_ExtractorTakesWhatFrontMatterTakes ==
    retried =>
        \A k \in 1..Len(commLines) :
            (TakenByExtractor(k) > TakenByExtractor(k - 1))
                <=> (TakenByFrontMatter(k) > TakenByFrontMatter(k - 1))

\* ------------------------------------------------------------------------
\* Claims about the minute of a line
\* ------------------------------------------------------------------------
\* the split pair of a line as A+B, <<>> if it has none
PairMinute(line) ==
    LET pair == AddedPairSearch(line, 1)
    IN  IF pair = <<>> THEN <<>> ELSE pair[1] \o <<"+">> \o pair[2]

\* the minute a line has of its own, by the precedence (a) split pair,
\* (b) tag at the start, (c) bare prefix, (d) leftmost tag; <<>> if none
OwnMinute(line) ==
    IF PairMinute(line) # <<>> THEN PairMinute(line)
    ELSE IF StartMin(line) # <<>> THEN StartMin(line)
    ELSE IF RawPrefix(line) # <<>> THEN RawPrefix(line)
    ELSE FirstTag(line, 1)

\* the minute after the first k lines: that of the last of them that has
\* one of its own, <<>> if none has
RECURSIVE MinuteAfter(_)
MinuteAfter(k) ==
    IF k = 0 THEN <<>>
    ELSE IF OwnMinute(pLines[k]) # <<>> THEN OwnMinute(pLines[k])
    ELSE MinuteAfter(k - 1)

\* C17: the minute of a line is resolved in the order (a) split pair
\* [MIN=A]+[MIN=B] anywhere, giving A+B, (b) tag at the start, (c) bare
\* prefix N' or N+M', (d) leftmost tag, (e) the minute carried; current_minute
\* takes the resolved value, so after any number of lines it is the minute of
\* the last line that resolved one of its own.
C17_MinuteByPrecedenceAndCarried ==
    pPc \in {"loop", "returned"} => curMin = MinuteAfter(pIdx - 1)

\* line k has been through the loop
Looped(k) == pPc \in {"loop", "returned"} /\ k \in 1..(pIdx - 1)

\* the loop has gone over a line whose bare prefix outranks a later tag,
\* after a line whose split pair outranks the tag at its start
C17_PrefixAfterPairSeen ==
    /\ Looped(2)
    /\ PairMinute(pLines[1]) # <<>>
    /\ StartMin(pLines[1]) # <<>>
    /\ RawPrefix(pLines[2]) # <<>>
    /\ FirstTag(pLines[2], 1) # <<>>
    /\ FirstTag(pLines[2], 1) # curMin

\* C18: a line for which no minute is resolved while none is carried is
\* skipped: no event stems from it, not even a QUOTE for a quotation it
\* holds, and as long as every line so far was such a line, current_minute
\* is None and the event list is empty.
C18_LineWithoutMinuteSkipped ==
    pPc \in {"loop", "returned"} =>
        /\ \A k \in 1..(pIdx - 1) :
               MinuteAfter(k) = <<>> => \A j \in DOMAIN evLine : evLine[j] # k
        /\ MinuteAfter(pIdx - 1) = <<>> => (curMin = <<>> /\ events = <<>>)

\* the loop has skipped a first line that holds a quotation and no minute,
\* and has taken events from the line after it
C18_QuotationSkipped ==
    /\ Looped(2)
    /\ OwnMinute(pLines[1]) = <<>>
    /\ Quotes(pLines[1], 1) # <<>>
    /\ events # <<>>
    /\ \A j \in DOMAIN evLine : evLine[j] = 2

\* ------------------------------------------------------------------------
\* Claims about the rules of the classifier
\* ------------------------------------------------------------------------
\* the types of goals, cards, disallowed goals and attempts, by side
OurSide == {"OUR_GOAL", "RC_US", "YC_US", "DISALLOWED_GOAL_US", "SAVE_US", "BLOCK_US",
            "OUR_BIG_CHANCE_MISSED", "FOUL_US", "FREEKICK_US"}

OppSide == {"OPP_GOAL", "RC_OPP", "YC_OPP", "DISALLOWED_GOAL_OPP", "SAVE_OPP", "BLOCK_OPP",
            "OPP_BIG_CHANCE_MISSED", "FOUL_OPP", "FREEKICK_OPP"}

\* C21: a goal, card, disallowed goal or attempt whose line has no team in
\* parentheses, no alias and no roster player goes to team 1: with our team
\* the first team it carries the type of our side, whatever its kind.
C21_NoEvidenceGoesToTeamOne ==
    \A j \in DOMAIN events :
        (/\ events[j].etype \in OurSide \cup OppSide
         /\ OwnerOfEvent(j) = 0
         /\ ourTeam = Team1) => events[j].etype \in OurSide

\* the label detached from line k, <<>> if it has none, and the line
\* without it
LabelOf(k) == Strip(SubSeq(pLines[k], 1, LabelLen(pLines[k])))
WithoutLabel(k) == Slice(pLines[k], LabelLen(pLines[k]) + 1, Len(pLines[k]))

\* the LABEL events of line k
LabelEvents(k) == {j \in EventsOfLine(k) : events[j].etype = "LABEL"}

\* a rule for a state, a substitution, a goal, a card, a corner, an offside,
\* a disallowed goal or an attempt takes line k
TakenByRule(k) ==
    \/ HasKeyword(_norm(WithoutLabel(k)), "ht")
    \/ HasKeyword(_norm(WithoutLabel(k)), "ft")
    \/ Classify(MinuteAfter(k), pLines[k], Nil, WithoutLabel(k), pAliases1, pAliases2,
                Roster1, Roster2, OurIndex = 1) # <<>>

\* C22: a line with a minute from which a label was detached and which no
\* rule takes gives exactly one LABEL event, whose note holds the text of
\* the label; a line without a label gives no LABEL event, and a line no rule
\* takes gives nothing but its QUOTE events and that LABEL event.
C22_LabelEventCarriesLabel ==
    \A k \in 1..Len(pLines) :
        Looped(k) =>
            /\ (LabelOf(k) # <<>> /\ MinuteAfter(k) # <<>> /\ ~TakenByRule(k)) =>
                   /\ Cardinality(LabelEvents(k)) = 1
                   /\ Classified(k) = LabelEvents(k)
                   /\ \A j \in LabelEvents(k) : Contains(events[j].note, LabelOf(k))
            /\ (LabelOf(k) = <<>> /\ ~TakenByRule(k)) => Classified(k) = {}

\* an alias of the team stands in text t at place a
AliasAt(t, a, team) ==
    \E al \in AliasSet(team) :
        /\ al # <<>>
        /\ a + Len(al) - 1 <= Len(t)
        /\ _norm(SubSeq(t, a, a + Len(al) - 1)) = al

\* the team named after  Corner,  or  Offside,  at the head of text t: 1, 2,
\* or 0 for neither of the two teams
TeamNamedAfterComma(t) ==
    IF AliasAt(t, SkipWs(t, 3), Team1) THEN 1
    ELSE IF AliasAt(t, SkipWs(t, 3), Team2) THEN 2
    ELSE 0

CornerTypes == {"CORNER_US", "CORNER_OPP"}

OffsideTypes == {"OFFSIDE_US", "OFFSIDE_OPP"}

\* C23: a corner or offside event comes only from a line whose text after
\* the label begins with  Corner, Team  or  Offside, Team ; it has no player,
\* and it is CORNER_US or OFFSIDE_US exactly when the team named is ours,
\* CORNER_OPP or OFFSIDE_OPP exactly when it is the other of the two teams.
C23_CornerOwnedByNamedTeam ==
    \A j \in DOMAIN events :
        events[j].etype \in CornerTypes \cup OffsideTypes =>
            LET t == WithoutLabel(evLine[j])
                word == IF events[j].etype \in CornerTypes THEN "corner" ELSE "offside"
            IN  /\ Lower(At(t, 1)) = word
                /\ At(t, 2) = ","
                /\ events[j].player = Nil
                /\ events[j].etype \in {"CORNER_US", "OFFSIDE_US"}
                       <=> TeamNamedAfterComma(t) = OurIndex
                /\ events[j].etype \in {"CORNER_OPP", "OFFSIDE_OPP"}
                       <=> TeamNamedAfterComma(t) = 3 - OurIndex

\* ------------------------------------------------------------------------
\* Claims about quotes and the events of one line
\* ------------------------------------------------------------------------
\* the quoted pieces of line k after its label
QuotedIn(k) == Quotes(WithoutLabel(k), 1)

\* the number of events that stem from the lines before line k
EventsBefore(k) == Cardinality({j \in DOMAIN events : evLine[j] < k})

\* C24: for every line with a minute, each quoted piece of the line after
\* its label is a QUOTE event of its own, with no player, the quoted text as
\* note and the minute of the line; these events come before any other event
\* of the line, whatever rule takes the line, a kick-off or a half-time line
\* included.
C24_QuotesFirstWhateverTheRule ==
    \A k \in 1..Len(pLines) :
        (Looped(k) /\ MinuteAfter(k) # <<>>) =>
            /\ Cardinality(EventsOfLine(k)) >= Len(QuotedIn(k))
            /\ \A i \in 1..Len(QuotedIn(k)) :
                   events[EventsBefore(k) + i] =
                       Ev(MinuteAfter(k), "QUOTE", Nil, Strip(QuotedIn(k)[i]))
            /\ \A j \in EventsOfLine(k) :
                   j > EventsBefore(k) + Len(QuotedIn(k)) => events[j].etype # "QUOTE"

\* the loop has gone over a half-time line with a quotation, which gives a
\* QUOTE event and nothing else, after a line with two quotations before its
\* event
C24_QuotesOfStateLineSeen ==
    /\ Looped(2)
    /\ Len(QuotedIn(1)) = 2
    /\ Cardinality(Classified(1)) = 1
    /\ HasKeyword(_norm(pLines[2]), "ht")
    /\ Len(QuotedIn(2)) = 1
    /\ Cardinality(EventsOfLine(2)) = 1

\* ------------------------------------------------------------------------
\* Claims about the player matcher
\* ------------------------------------------------------------------------
\* the line handed to detect_player
DetectLine == OwnerLine(oParts)

\* a capitalised token of the line reaches the cut against the roster
TokenReaches(roster) ==
    \E i \in DOMAIN CapTokens(DetectLine, 1) : \E n \in DOMAIN roster :
        AtLeast(Score(CapTokens(DetectLine, 1)[i], roster[n]), FuzzyCut)

\* C25: if the line holds a roster name, case ignored, the first such name
\* of roster 1, or else of roster 2, is returned with its index and no
\* fuzzy match is looked for; otherwise a capitalised token is accepted for a
\* roster only with a score of 86 or more, and if no token reaches 86 for
\* either roster the result is no player and no team.
C25_ExactThenFuzzyFromCut ==
    oPc = "det" =>
        IF NamesIn(DetectLine, Roster1) # {}
        THEN oDet = [player |-> Roster1[FirstOf(NamesIn(DetectLine, Roster1))], idx |-> 1]
        ELSE IF NamesIn(DetectLine, Roster2) # {}
        THEN oDet = [player |-> Roster2[FirstOf(NamesIn(DetectLine, Roster2))], idx |-> 2]
        ELSE /\ oDet.idx = 1 => TokenReaches(Roster1)
             /\ oDet.idx = 2 => TokenReaches(Roster2)
             /\ (~TokenReaches(Roster1) /\ ~TokenReaches(Roster2)) => oDet = NoPlayer
             /\ (TokenReaches(Roster1) \/ TokenReaches(Roster2)) => oDet.idx # 0

\* detect_player has answered by a fuzzy match
C25_FuzzyMatchSeen ==
    /\ oPc = "det"
    /\ NamesIn(DetectLine, Roster1) = {}
    /\ NamesIn(DetectLine, Roster2) = {}
    /\ oDet.idx = 1

\* C28: whenever detect_player returns a player with the index k of a team,
\* the player is an entry of roster k, for the exact tier and for the fuzzy
\* tier alike.
C28_PlayerIsRosterEntry ==
    (oPc = "det" /\ oDet.idx # 0) => InList(oDet.player, RosterOf(oDet.idx))

\* ------------------------------------------------------------------------
\* Items of the event list that are no events
\* ------------------------------------------------------------------------
\* C26: an item of the event list that is no dictionary or holds no type
\* is dropped by build_memory: it is not in the stored timeline, and
\* compute_stats, which reads the type of every entry of the timeline, does
\* not raise on the memory built.
C26_MalformedItemsDropped ==
    /\ mPc \in {"built", "stats"} =>
          \A i \in DOMAIN memory.timeline : Counted(memory.timeline[i])
    /\ mPc = "raised" => ~HasRaised(stats)
\* ------------------------------------------------------------------------
\* One line, one event, one minute
\* ------------------------------------------------------------------------
\* the event types of the rules, in the order of the decision list: state,
\* substitution, goal, red card, yellow card, corner, offside, disallowed
\* goal, attempt, label
RuleTypes ==
    <<{"KICK_OFF", "DELAY", "RESUME", "ADDED_TIME"},
      {"SUB_US", "SUB_OPP"},
      {"OUR_GOAL", "OPP_GOAL"},
      {"RC_US", "RC_OPP"},
      {"YC_US", "YC_OPP"},
      CornerTypes,
      OffsideTypes,
      {"DISALLOWED_GOAL_US", "DISALLOWED_GOAL_OPP"},
      {"SAVE_US", "SAVE_OPP", "BLOCK_US", "BLOCK_OPP", "FOUL_US", "FOUL_OPP",
       "FREEKICK_US", "FREEKICK_OPP", "OUR_BIG_CHANCE_MISSED", "OPP_BIG_CHANCE_MISSED"},
      {"LABEL"}>>

\* rule r of the decision list matches a line, rest being the line without
\* its label and low its lower-case form
RuleMatches(r, rest, low, labelled) ==
    CASE r = 1 -> \/ HasKeyword(low, "ko") \/ HasKeyword(low, "ht") \/ HasKeyword(low, "ft")
                  \/ Contains(low, <<"delay", SP, "in", SP, "match">>)
                  \/ Contains(low, <<"delay", SP, "over">>)
                  \/ Contains(low, <<"added", SP, "time">>)
                  \/ Contains(low, <<"has", SP, "announced">>)
      [] r = 2 -> SUB_PAT_1(rest).ok \/ SUB_PAT_2(rest, 1).ok
      [] r = 3 -> HasKeyword(low, "goal")
      [] r = 4 -> HasKeyword(low, "rc")
      [] r = 5 -> HasKeyword(low, "yc")
      [] r = 6 -> CORNER_PAT(rest).ok
      [] r = 7 -> OFFSIDE_PAT(rest).ok
      [] r = 8 -> HasKeyword(low, "disallowed")
      [] r = 9 -> AttemptType(low) # ""
      [] r = 10 -> labelled

\* the rules that match line k
RulesMatching(k) ==
    With(WithoutLabel(k), LAMBDA rest :
    With(_norm(rest), LAMBDA low :
        {r \in 1..10 : RuleMatches(r, rest, low, LabelLen(pLines[k]) > 0)}))

\* C27: every line gives at most one event that is no QUOTE, of the first
\* rule in the order of the decision list that matches the line, and all
\* events of a line carry one minute, the current minute after that line.
C27_OneEventOneMinutePerLine ==
    \A k \in 1..Len(pLines) :
        Looped(k) =>
            /\ Cardinality(Classified(k)) <= 1
            /\ \A j \in Classified(k) :
                  /\ RulesMatching(k) # {}
                  /\ events[j].etype \in RuleTypes[Least(RulesMatching(k))]
            /\ \A j \in EventsOfLine(k) :
                  /\ events[j].t = MinuteAfter(k)
                  /\ (k = pIdx - 1 => events[j].t = curMin)

\* a line that two rules match has given one event, and a line with a
\* quotation has given one event next to its QUOTE events
C27_QuotesAndOneEventSeen ==
    /\ \E k \in 1..Len(pLines) :
          /\ Looped(k)
          /\ Cardinality(RulesMatching(k)) >= 2
          /\ Cardinality(Classified(k)) = 1
    /\ \E k \in 1..Len(pLines) :
          /\ Looped(k)
          /\ Cardinality(Classified(k)) = 1
          /\ Cardinality(EventsOfLine(k)) >= 2
\* ------------------------------------------------------------------------
\* The normaliser applied to its own output
\* ------------------------------------------------------------------------
\* C29: normalise_minutes leaves its own output as it is:
\* normalise_minutes(normalise_minutes(x)) = normalise_minutes(x).
C29_NormaliseIdempotent ==
    nmPc = "out" => normalise_minutes(nmOut) = nmOut
\* ------------------------------------------------------------------------
\* Lines that begin with their own minute marker
\* ------------------------------------------------------------------------
\* raw line i after its minute marker
AfterMarker(i) ==
    Strip(Slice(commRaw[i], MarkerAtStart(commRaw[i]).len + 1, Len(commRaw[i])))

\* the first rule of the decision list that matches a text, 0 if none does
FirstRule(text) ==
    With(Slice(text, LabelLen(text) + 1, Len(text)), LAMBDA rest :
    With(_norm(rest), LAMBDA low :
        Least({r \in 1..10 : RuleMatches(r, rest, low, LabelLen(text) > 0)})))

\* the label of a text between brackets, as the note of an attempt holds it
Bracketed(text) == <<"[">> \o Strip(Slice(text, 1, LabelLen(text))) \o <<"]">>

\* C30: a raw line that begins with its own minute marker and goes on with
\* Substitution, <Team>. <On> replaces <Off>. / Corner, <Team> / Offside,
\* <Team> / a label in capitals gives, after clean and
\* parse_events_unbiased, a SUB / CORNER / OFFSIDE event or an event that
\* bears the label, with the minute of the line.
C30_AnchoredFormsSurviveClean ==
    \A i \in 1..Len(commRaw) :
        (Seen(i) /\ MarkerAtStart(commRaw[i]).len > 0) =>
            With(AfterMarker(i), LAMBDA text :
            With(FirstRule(text), LAMBDA first :
            With(MinuteCanonical(MarkerAtStart(commRaw[i])), LAMBDA minute :
                /\ (first = 2 /\ SUB_PAT_1(text).ok) =>
                      \E j \in EventsOfLine(i) :
                          events[j].etype \in RuleTypes[2] /\ events[j].t = minute
                /\ first = 6 =>
                      \E j \in EventsOfLine(i) :
                          events[j].etype \in CornerTypes /\ events[j].t = minute
                /\ first = 7 =>
                      \E j \in EventsOfLine(i) :
                          events[j].etype \in OffsideTypes /\ events[j].t = minute
                /\ (first \in {9, 10} /\ LabelLen(text) > 0) =>
                      \E j \in EventsOfLine(i) :
                          /\ events[j].t = minute
                          /\ \/ events[j].etype = "LABEL"
                             \/ Contains(events[j].note, Bracketed(text)))))
=============================================================================
